---------------------------- MODULE Spec2Model ----------------------------
(***************************************************************************)
(* A model of pyeep-nsfw: the heart-rate slope/excitement detector, the    *)
(* gyroscope bias calibration and the run loops of the asyncio components. *)
(*                                                                         *)
(* Conventions                                                             *)
(*   - Optional[T] is a sequence of length 0 (None) or 1 (the value).      *)
(*   - HeartSample.time is held in whole seconds; the code holds           *)
(*     nanoseconds and divides by 1_000_000_000 wherever it compares.      *)
(*   - A regression slope is a rational [n, d] with d > 0.                 *)
(***************************************************************************)
EXTENDS Integers, Sequences, FiniteSets, TLC

VARIABLES
    one_slope,  \* a Slope driven by arbitrary extend() calls
    ext,        \* the extend() call made by the latest step
    acc,        \* a Slopes accumulator driven by arbitrary check() calls
    call,       \* the check() call made by the latest step
    gyro,       \* a GyroAxis: bias_samples, bias, window
    cal_file,   \* the content of the axis' calibration file, None when absent
    raw,        \* the raw samples given to GyroAxis.add() so far; raw.preexisting
                \* tells whether the calibration file existed at construction
    exc,        \* the Excitement detector (pyeep/heart/improvised.py)
    app,        \* the class of the component the app runs, "none" without one
    bt,         \* a BluetoothComponent or a Coyote
    cnc,        \* a CncInput
    nullout,    \* a NullOutput
    test,       \* a TestOutput
    hr,         \* a HeartReceiver
    bus,        \* the message bus between senders and subscribers
    head,       \* a HeadMovement or a ModeHeadMovement with its three GyroAxis
    win,        \* a Window called on a growing list of samples
    oc,         \* an OutputController and the SetPower messages it sends
    pat,        \* a Pattern read call after call, and what the calls returned
    player,     \* a Player, its channels and its overrides
    disc,       \* the names given to add_component by device discovery
    coy,        \* a pair of Coyote channel powers, encoded and parsed back
    hp,         \* accelerometer samples and the HeadMoved message computed from them
    bp,         \* a ButtplugClient, its scan task and the Buttplug server's devices
    hl          \* HappyLights, its three colour components and its lights task

slopeVars == <<one_slope, ext>>

slopesVars == <<acc, call>>

gyroVars == <<gyro, cal_file, raw>>

heartVars == <<exc>>

compVars == <<app, bt, cnc, nullout, test, hr>>

busVars == <<bus>>

headVars == <<head>>

windowVars == <<win>>

outputVars == <<oc>>

patternVars == <<pat>>

playerVars == <<player>>

discoveryVars == <<disc>>

coyoteVars == <<coy>>

headPosVars == <<hp>>

buttplugVars == <<bp>>

lightsVars == <<hl>>

analysisVars == <<slopeVars, slopesVars, gyroVars, heartVars, headVars, windowVars, outputVars, patternVars, playerVars, discoveryVars, coyoteVars, headPosVars, buttplugVars, lightsVars>>

exceptBt == <<analysisVars, busVars, app, cnc, nullout, test, hr>>

exceptCnc == <<analysisVars, busVars, app, bt, nullout, test, hr>>

exceptNull == <<analysisVars, busVars, app, bt, cnc, test, hr>>

exceptTest == <<analysisVars, busVars, app, bt, cnc, nullout, hr>>

exceptHr == <<analysisVars, busVars, app, bt, cnc, nullout, test>>

exceptBus == <<analysisVars, compVars>>

exceptOc == <<slopeVars, slopesVars, gyroVars, heartVars, headVars, windowVars,
              compVars, busVars, patternVars, playerVars, discoveryVars, coyoteVars, headPosVars, buttplugVars, lightsVars>>

exceptPat == <<slopeVars, slopesVars, gyroVars, heartVars, headVars, windowVars,
               compVars, busVars, outputVars, playerVars, discoveryVars, coyoteVars, headPosVars, buttplugVars, lightsVars>>

exceptPlayer == <<slopeVars, slopesVars, gyroVars, heartVars, headVars,
                  windowVars, compVars, busVars, outputVars, patternVars, discoveryVars, coyoteVars, headPosVars, buttplugVars, lightsVars>>

exceptDisc == <<slopeVars, slopesVars, gyroVars, heartVars, headVars,
                windowVars, compVars, busVars, outputVars, patternVars,
                playerVars, coyoteVars, headPosVars, buttplugVars, lightsVars>>

exceptCoy == <<slopeVars, slopesVars, gyroVars, heartVars, headVars,
               windowVars, compVars, busVars, outputVars, patternVars,
               playerVars, discoveryVars, headPosVars, buttplugVars, lightsVars>>

exceptHp == <<slopeVars, slopesVars, gyroVars, heartVars, headVars,
              windowVars, compVars, busVars, outputVars, patternVars,
              playerVars, discoveryVars, coyoteVars, buttplugVars, lightsVars>>

exceptBp == <<slopeVars, slopesVars, gyroVars, heartVars, headVars,
              windowVars, compVars, busVars, outputVars, patternVars,
              playerVars, discoveryVars, coyoteVars, headPosVars, lightsVars>>

exceptLights == <<slopeVars, slopesVars, gyroVars, heartVars, headVars,
                  windowVars, compVars, busVars, outputVars, patternVars,
                  playerVars, discoveryVars, coyoteVars, headPosVars,
                  buttplugVars>>

vars == <<one_slope, ext, acc, call, gyro, cal_file, raw, exc,
          app, bt, cnc, nullout, test, hr, bus, head, win, oc, pat, player, disc, coy, hp, bp, hl>>

-----------------------------------------------------------------------------
(* Helpers *)

None == <<>>

Some(x) == <<x>>

The(o) == o[1]

Last(s) == s[Len(s)]

Rat(n, d) == [n |-> n, d |-> d]

Abs(x) == IF x < 0 THEN -x ELSE x

RECURSIVE Gcd(_, _)
Gcd(a, b) == IF b = 0 THEN a ELSE Gcd(b, a % b)

\* the rational n / d, d > 0, in lowest terms
Norm(n, d) ==
    LET g == Gcd(Abs(n), d) IN Rat(n \div g, d \div g)

\* a < b for rationals with positive denominators
RatLt(a, b) == a.n * b.d < b.n * a.d

\* xs[lo] + ... + xs[hi], by halves
RECURSIVE SumRange(_, _, _)
SumRange(xs, lo, hi) ==
    IF lo > hi THEN 0
    ELSE IF lo = hi THEN xs[lo]
    ELSE LET mid == (lo + hi) \div 2
         IN  SumRange(xs, lo, mid) + SumRange(xs, mid + 1, hi)

SumSeq(xs) == SumRange(xs, 1, Len(xs))

DequeAppendKeepOldest(dq, x, n) == IF Len(dq) < n THEN Append(dq, x) ELSE dq

\* deque(maxlen=n).append
DequeAppend(dq, x, n) ==
    IF Len(dq) < n THEN Append(dq, x) ELSE Append(Tail(dq), x)

RECURSIVE MinRate(_)
MinRate(samples) ==
    IF Len(samples) = 1 THEN samples[1].rate
    ELSE LET m == MinRate(Tail(samples))
         IN  IF samples[1].rate < m THEN samples[1].rate ELSE m

RECURSIVE MaxRate(_)
MaxRate(samples) ==
    IF Len(samples) = 1 THEN samples[1].rate
    ELSE LET m == MaxRate(Tail(samples))
         IN  IF samples[1].rate > m THEN samples[1].rate ELSE m

-----------------------------------------------------------------------------
(* class Slope *)

\* Slope.__init__
SlopeNew(samples, slope) ==
    [ samples    |-> samples,
      min_slope  |-> slope,
      max_slope  |-> slope,
      last_slope |-> slope,
      min_rate   |-> MinRate(samples),
      max_rate   |-> MaxRate(samples) ]

\* Slope.duration, in seconds
Duration(s) == Last(s.samples).time - s.samples[1].time

\* Slope.height
Height(s) == s.max_rate - s.min_rate

\* The filter of Slope.extend: every sample of the list is compared with the
\* last sample stored before the call.
NewSamplesDup(s, samples) ==
    SelectSeq(samples, LAMBDA x : x.time >= Last(s.samples).time)

NewSamples(s, samples) ==
    SelectSeq(samples, LAMBDA x : x.time > Last(s.samples).time)

TrackRatesLastOnly(mm, new_samples) ==
    IF new_samples = <<>> THEN mm
    ELSE LET r == Last(new_samples).rate
         IN  [min_rate |-> IF r < mm.min_rate THEN r ELSE mm.min_rate,
              max_rate |-> IF r > mm.max_rate THEN r ELSE mm.max_rate]

\* The loop of Slope.extend over new_samples, tracking the extrema
RECURSIVE TrackRates(_, _)
TrackRates(mm, new_samples) ==
    IF new_samples = <<>> THEN mm
    ELSE LET r  == new_samples[1].rate
             lo == IF r < mm.min_rate THEN r ELSE mm.min_rate
             hi == IF r > mm.max_rate THEN r ELSE mm.max_rate
         IN  TrackRates([min_rate |-> lo, max_rate |-> hi], Tail(new_samples))

\* Slope.extend
SlopeExtend(s, samples, slope) ==
    LET new_samples == NewSamples(s, samples)
        mm == TrackRates([min_rate |-> s.min_rate, max_rate |-> s.max_rate],
                         new_samples)
    IN  [ samples    |-> s.samples \o new_samples,
          min_slope  |-> IF RatLt(slope, s.min_slope) THEN slope ELSE s.min_slope,
          max_slope  |-> IF RatLt(s.max_slope, slope) THEN slope ELSE s.max_slope,
          last_slope |-> slope,
          min_rate   |-> mm.min_rate,
          max_rate   |-> mm.max_rate ]

-----------------------------------------------------------------------------
(* class Slopes *)

\* Slopes.__init__
SlopesNew(min_slope_duration, min_slope_height) ==
    [ slopes             |-> <<>>,
      current            |-> None,
      min_slope_duration |-> min_slope_duration,
      min_slope_height   |-> min_slope_height ]

\* The commit test of Slopes.check
QualifiesLoose(a) ==
    /\ a.current # None
    /\ Duration(The(a.current)) > a.min_slope_duration
    /\ Height(The(a.current)) >= a.min_slope_height

Qualifies(a) ==
    /\ a.current # None
    /\ Duration(The(a.current)) > a.min_slope_duration
    /\ Height(The(a.current)) > a.min_slope_height

\* Slopes.check: the accumulator after the call
SlopesCheck(a, window_samples, slope, above_threshold) ==
    IF above_threshold
    THEN IF a.current = None
         THEN [a EXCEPT !.current = Some(SlopeNew(window_samples, slope))]
         ELSE [a EXCEPT !.current = Some(SlopeExtend(The(a.current), window_samples, slope))]
    ELSE IF Qualifies(a)
         THEN [a EXCEPT !.slopes = Append(a.slopes, The(a.current)),
                        !.current = None]
         ELSE [a EXCEPT !.current = None]

\* Slopes.check: the value returned
SlopesCheckResult(a, above_threshold) ==
    IF above_threshold
    THEN IF a.current = None THEN 1 ELSE 2
    ELSE IF Qualifies(a) THEN 3 ELSE 0

-----------------------------------------------------------------------------
(* class GyroAxis *)

\* the number of raw samples the bias is computed from
bias_samples_len == 128

\* GyroAxis.window_len
window_len == 64

\* numpy.mean of a list of samples
Mean(xs) == Rat(SumSeq(xs), Len(xs))

\* sample - self.bias
Unbias(sample, bias) == Rat(sample * bias.d - bias.n, bias.d)

\* GyroAxis.__init__, given the content of the calibration file
GyroAxisNew(file) ==
    [ window       |-> <<>>,
      bias_samples |-> <<>>,
      bias         |-> IF file # None THEN Some(The(file).bias) ELSE None ]

\* the test of GyroAxis.add that sends a sample to the calibration buffer
CollectingOneMore(g) == g.bias = None /\ Len(g.bias_samples) <= bias_samples_len

Collecting(g) == g.bias = None /\ Len(g.bias_samples) < bias_samples_len

\* GyroAxis.add: the axis after the call
GyroAdd(g, sample) ==
    IF Collecting(g)
    THEN [g EXCEPT !.bias_samples = Append(g.bias_samples, sample)]
    ELSE LET bias == IF g.bias = None THEN Mean(g.bias_samples) ELSE The(g.bias)
         IN  [g EXCEPT !.bias = Some(bias),
                       !.window = DequeAppend(g.window, Unbias(sample, bias), window_len)]

GyroWritesAlways(g) == ~Collecting(g)

\* GyroAxis.add: whether the call computes the bias and writes the file
GyroWrites(g) == ~Collecting(g) /\ g.bias = None

GyroAddFileRounded(g, file) ==
    IF GyroWrites(g)
    THEN Some([bias |-> Rat(SumSeq(g.bias_samples) \div Len(g.bias_samples), 1)])
    ELSE file

\* GyroAxis.add: the calibration file after the call.  json.dumps writes
\* the shortest decimal text that reads back as the same float, so the file
\* holds the bias itself
GyroAddFile(g, file) ==
    IF GyroWrites(g)
    THEN Some([bias |-> Mean(g.bias_samples)])
    ELSE file

-----------------------------------------------------------------------------
(* A GyroAxis fed a stream of raw samples *)

\* at most this many samples are given to add()
MaxAdds == 131

\* at most this many samples of the stream differ from the resting value
MaxSpikes == 1

GyroRest == {2}

GyroSpike == {5}

\* the files an earlier run can have left behind
GyroFiles == {None, Some([bias |-> Rat(7, 4)])}

Spikes(xs) == Cardinality({i \in DOMAIN xs : xs[i] \in GyroSpike})

\* at most this many GyroAxis objects are constructed for the axis, one
\* after the other
MaxInstances == 2

\* at most this many samples are given to an instance that is not the first
MaxLaterAdds == 3

\* What is recorded about the instance at work: whether the file existed
\* when it was constructed, the samples given to it, the number of times it
\* wrote the file, its rank, and the bias its predecessor ended with
RawNew(file, instance, earlier) ==
    [preexisting |-> file # None, samples |-> <<>>, writes |-> 0,
     instance |-> instance, earlier |-> earlier]

GyroInit ==
    \E file \in GyroFiles :
        /\ cal_file = file
        /\ gyro = GyroAxisNew(file)
        /\ raw = RawNew(file, 1, None)

GyroIdle ==
    /\ cal_file = None
    /\ gyro = GyroAxisNew(None)
    /\ raw = RawNew(None, 1, None)

Add ==
    /\ Len(raw.samples) < (IF raw.instance = 1 THEN MaxAdds ELSE MaxLaterAdds)
    /\ \E sample \in GyroRest \cup
                     (IF Spikes(raw.samples) < MaxSpikes THEN GyroSpike ELSE {}) :
          /\ gyro' = GyroAdd(gyro, sample)
          /\ cal_file' = GyroAddFile(gyro, cal_file)
          /\ raw' = [raw EXCEPT !.samples = Append(raw.samples, sample),
                                !.writes = IF GyroWrites(gyro) THEN @ + 1 ELSE @]
    /\ UNCHANGED <<slopeVars, slopesVars, heartVars, compVars, busVars, headVars, windowVars, outputVars, patternVars, playerVars, discoveryVars, coyoteVars, headPosVars, buttplugVars, lightsVars>>

\* the program is run again: a fresh GyroAxis is constructed for the same
\* axis name and finds the file as the earlier instance left it
Restart ==
    /\ raw.instance < MaxInstances
    /\ gyro' = GyroAxisNew(cal_file)
    /\ raw' = RawNew(cal_file, raw.instance + 1, gyro.bias)
    /\ UNCHANGED cal_file
    /\ UNCHANGED <<slopeVars, slopesVars, heartVars, compVars, busVars, headVars, windowVars, outputVars, patternVars, playerVars, discoveryVars, coyoteVars, headPosVars, buttplugVars, lightsVars>>

-----------------------------------------------------------------------------
(* class HeadMovement and class ModeHeadMovement (stim/muse2.py): three    *)
(* GyroAxis fed chunks of gyroscope samples                                *)

\* max_samples of HeadMovement: the longest LSL chunk
max_samples == 8

\* at most this many samples are given to each axis
MaxHeadSamples == 200

HeadClasses == {"HeadMovement", "ModeHeadMovement"}

AxisNames == <<"x", "y", "z">>

\* whether the three calibration files exist when the object is constructed
NoFiles == [i \in 1..3 |-> None]

HeadFiles == {NoFiles, [i \in 1..3 |-> Some([bias |-> Rat(i, 4)])]}

\* The head at rest reads (0, 0, 2); at these sample numbers it may read
\* (5, 0, 2) instead
HeadSpikeSlots == {129, 190}

HeadRest == <<0, 0, 2>>

HeadSpike == <<5, 0, 2>>

\* what value() may return on a full window: the frequency and the power
\* of the strongest of the first 32 bands of the FFT of the window.  The
\* FFT is not computed: any of these outcomes is possible on a full window
FullValues == {[freq |-> 0, power |-> 0], [freq |-> 13, power |-> 600]}

GyroValueAnyWindow(g) ==
    IF Len(g.window) > 0 THEN FullValues ELSE {[freq |-> 0, power |-> 0]}

\* GyroAxis.value: the set of values the call may return
GyroValue(g) ==
    IF Len(g.window) = window_len THEN FullValues
    ELSE {[freq |-> 0, power |-> 0]}

\* the `for sample in ...: axis.add(sample)` loop over one chunk, on the
\* pair of an axis and its calibration file
RECURSIVE AxisAddAll(_, _)
AxisAddAll(gf, samples) ==
    IF samples = <<>> THEN gf
    ELSE AxisAddAll([g    |-> GyroAdd(gf.g, Head(samples)),
                     file |-> GyroAddFile(gf.g, gf.file)], Tail(samples))

\* the axis picked by the selection loop: the first one of greatest power
Selected(values) ==
    CHOOSE i \in 1..3 :
        /\ \A j \in 1..3 : values[j].power <= values[i].power
        /\ \A j \in 1..(i - 1) : values[j].power < values[i].power

\* the HeadShaken message sent when selected[2] > 500, None otherwise.  The
\* message also carries 10 * log10(power ** 2), which no property reads
HeadShaken(values) ==
    LET i == Selected(values)
    IN  IF values[i].power > 500
        THEN Some([kind |-> "HeadShaken", axis |-> AxisNames[i],
                   freq |-> values[i].freq])
        ELSE None

\* HeadMovement.__init__ / ModeHeadMovement.__init__.  ModeHeadMovement has
\* no `active` attribute: it processes every chunk, which active = TRUE
\* stands for.  received counts the samples given to each axis, values
\* holds what the three value() calls of the latest chunk returned and out
\* the message that chunk sent.
HeadNew(cls, files) ==
    [ cls         |-> cls,
      axes        |-> [i \in 1..3 |-> GyroAxisNew(files[i])],
      files       |-> files,
      preexisting |-> files # NoFiles,
      active      |-> cls = "ModeHeadMovement",
      received    |-> 0,
      values      |-> <<>>,
      out         |-> None ]

\* the three add() loops of process_samples / on_gyro over a chunk
AxesAfter(h, chunk) ==
    [i \in 1..3 |-> AxisAddAll([g |-> h.axes[i], file |-> h.files[i]],
                               [k \in DOMAIN chunk |-> chunk[k][i]])]

\* HeadMovement.process_samples / ModeHeadMovement.on_gyro on a chunk
\* whose three value() calls return `values`
ProcessSamples(h, chunk, values) ==
    LET after == AxesAfter(h, chunk)
    IN  [h EXCEPT !.axes     = [i \in 1..3 |-> after[i].g],
                  !.files    = [i \in 1..3 |-> after[i].file],
                  !.received = @ + Len(chunk),
                  !.values   = values,
                  !.out      = HeadShaken(values)]

\* the values the three axes may return after the chunk has been added
ValuesAfter(h, chunk) ==
    LET after == AxesAfter(h, chunk)
    IN  {<<vx, vy, vz>> : vx \in GyroValue(after[1].g),
                          vy \in GyroValue(after[2].g),
                          vz \in GyroValue(after[3].g)}

\* the chunks of n samples that may follow `received` samples
Chunks(received, n) ==
    {[k \in 1..n |-> IF spike /\ (received + k) \in HeadSpikeSlots
                     THEN HeadSpike ELSE HeadRest] : spike \in BOOLEAN}

HeadInit == \E cls \in HeadClasses, files \in HeadFiles : head = HeadNew(cls, files)

HeadIdle == head = HeadNew("HeadMovement", NoFiles)

\* HeadMovement.run on InputSetActive for this input
HeadSetActive ==
    /\ head.cls = "HeadMovement"
    /\ \E value \in BOOLEAN : head' = [head EXCEPT !.active = value, !.out = None]
    /\ UNCHANGED <<slopeVars, slopesVars, gyroVars, heartVars, compVars, busVars, windowVars, outputVars, patternVars, playerVars, discoveryVars, coyoteVars, headPosVars, buttplugVars, lightsVars>>

\* HeadMovement.run on LSLSamples, or the gyroscope callback of
\* ModeHeadMovement
HeadChunk ==
    /\ \E n \in {1, max_samples} :
          /\ head.received + n <= MaxHeadSamples
          /\ \E chunk \in Chunks(head.received, n) :
                IF head.active
                THEN \E values \in ValuesAfter(head, chunk) :
                        head' = ProcessSamples(head, chunk, values)
                ELSE head' = [head EXCEPT !.out = None]
    /\ UNCHANGED <<slopeVars, slopesVars, gyroVars, heartVars, compVars, busVars, windowVars, outputVars, patternVars, playerVars, discoveryVars, coyoteVars, headPosVars, buttplugVars, lightsVars>>

-----------------------------------------------------------------------------
(* One Slope under arbitrary extend() calls *)

NoCall == [n |-> 0, above_threshold |-> FALSE, ret |-> 0]

SlopesIdle ==
    /\ acc = SlopesNew(3, 6)
    /\ call = NoCall

\* at most this many extend() calls are made on the Slope
MaxExtends == 2

ExtTimes == {0, 1, 2}

ExtRates == {60, 70}

ExtSamples == [time : ExtTimes, rate : ExtRates]

\* the lists handed to Slope() and extend(): any one or two samples, in any order
ExtLists == {<<x>> : x \in ExtSamples}
                \cup {<<x, y>> : x \in ExtSamples, y \in ExtSamples}

ExtSlopes == {Rat(-1, 2), Rat(1, 2)}

NoExt == [n |-> 0, samples |-> <<>>]

SlopeInit ==
    /\ \E ws \in ExtLists, sl \in ExtSlopes : one_slope = SlopeNew(ws, sl)
    /\ ext = NoExt

SlopeIdle ==
    /\ one_slope = SlopeNew(<<[time |-> 0, rate |-> 60]>>, Rat(1, 2))
    /\ ext = NoExt

Extend ==
    /\ ext.n < MaxExtends
    /\ \E ws \in ExtLists, sl \in ExtSlopes :
          /\ one_slope' = SlopeExtend(one_slope, ws, sl)
          /\ ext' = [n |-> ext.n + 1, samples |-> ws]
    /\ UNCHANGED <<slopesVars, gyroVars, heartVars, compVars, busVars, headVars, windowVars, outputVars, patternVars, playerVars, discoveryVars, coyoteVars, headPosVars, buttplugVars, lightsVars>>

-----------------------------------------------------------------------------
(* A Slopes accumulator under arbitrary check() calls *)

\* at most this many check() calls are made on the accumulator
MaxCalls == 3

CallTimes == {0, 2, 4, 9}

CallRates == {60, 66, 70}

\* the windows handed to check(): two samples in time order
CallLists ==
    {<<x, y>> : x \in [time : CallTimes, rate : CallRates],
                y \in [time : CallTimes, rate : CallRates]}

CallSlopes == {Rat(-1, 2), Rat(1, 2)}

\* the (min_slope_duration, min_slope_height) pairs of Window.__init__
SlopesParams == {<<3, 6>>, <<8, 0>>}

SlopesInit ==
    /\ \E p \in SlopesParams : acc = SlopesNew(p[1], p[2])
    /\ call = NoCall

\* check(window_samples, slope, True)
CheckAbove ==
    /\ call.n < MaxCalls
    /\ \E ws \in {l \in CallLists : l[1].time < l[2].time}, sl \in CallSlopes :
          /\ acc' = SlopesCheck(acc, ws, sl, TRUE)
          /\ call' = [ n |-> call.n + 1, above_threshold |-> TRUE,
                       ret |-> SlopesCheckResult(acc, TRUE) ]
    /\ UNCHANGED <<slopeVars, gyroVars, heartVars, compVars, busVars, headVars, windowVars, outputVars, patternVars, playerVars, discoveryVars, coyoteVars, headPosVars, buttplugVars, lightsVars>>

\* check(window_samples, slope, False): this branch reads neither the window
\* nor the slope
CheckBelow ==
    /\ call.n < MaxCalls
    /\ acc' = SlopesCheck(acc, <<>>, Rat(0, 1), FALSE)
    /\ call' = [ n |-> call.n + 1, above_threshold |-> FALSE,
                 ret |-> SlopesCheckResult(acc, FALSE) ]
    /\ UNCHANGED <<slopeVars, gyroVars, heartVars, compVars, busVars, headVars, windowVars, outputVars, patternVars, playerVars, discoveryVars, coyoteVars, headPosVars, buttplugVars, lightsVars>>

-----------------------------------------------------------------------------
(* class Window *)

\* Window.__init__("10s", 10).  prev_slope is not an attribute of the class:
\* it holds the value last_slope had before the latest analysed window
\* replaced it
WindowNew(width_seconds) ==
    [ width_seconds  |-> width_seconds,
      prev_slope     |-> Rat(0, 1),
      climbs         |-> SlopesNew(3, 6),
      falls          |-> SlopesNew(3, 6),
      coasts         |-> SlopesNew(8, 0),
      last_slope     |-> Rat(0, 1),
      last_variance  |-> Rat(0, 1),
      slope_climbing |-> FALSE,
      summary        |-> <<>> ]

\* the samples of the history within width_seconds of the latest one
WindowSamples(w, samples) ==
    SelectSeq(samples, LAMBDA x : x.time >= Last(samples).time - w.width_seconds)

\* scipy.stats.linregress(...).slope of rate against (time - last_time), and
\* numpy.var of the rates, in exact arithmetic
Regression(ws) ==
    LET n   == Len(ws)
        xs  == [i \in 1..n |-> ws[i].time - Last(ws).time]
        ys  == [i \in 1..n |-> ws[i].rate]
        Sx  == SumSeq(xs)
        Sy  == SumSeq(ys)
        Sxy == SumSeq([i \in 1..n |-> xs[i] * ys[i]])
        Sxx == SumSeq([i \in 1..n |-> xs[i] * xs[i]])
        Syy == SumSeq([i \in 1..n |-> ys[i] * ys[i]])
    IN  [ slope    |-> Norm(n * Sxy - Sx * Sy, n * Sxx - Sx * Sx),
          variance |-> Norm(n * Syy - Sy * Sy, n * n) ]

\* reg.slope > 0.3
ClimbTest(slope) == RatLt(Rat(3, 10), slope)

\* reg.slope < -0.3
FallTest(slope) == RatLt(slope, Rat(-3, 10))

CoastTestVarianceOnly(slope, variance) == RatLt(variance, Rat(1, 1))

\* variance < 1.0 or (reg.slope < 0.1 and reg.slope > -0.1)
CoastTest(slope, variance) ==
    \/ RatLt(variance, Rat(1, 1))
    \/ (RatLt(slope, Rat(1, 10)) /\ RatLt(Rat(-1, 10), slope))

SlopeClimbingPositive(slope, last_slope) == RatLt(Rat(0, 1), slope)

\* reg.slope > 0 and reg.slope >= self.last_slope
SlopeClimbing(slope, last_slope) ==
    RatLt(Rat(0, 1), slope) /\ ~RatLt(slope, last_slope)

\* Window.sample past its early return, on the samples of the window
WindowAnalyse(w, ws) ==
    LET reg == Regression(ws)
        c == ClimbTest(reg.slope)
        f == FallTest(reg.slope)
        q == CoastTest(reg.slope, reg.variance)
        climbing == SlopeClimbing(reg.slope, w.last_slope)
    IN  [ w EXCEPT
            !.climbs = SlopesCheck(w.climbs, ws, reg.slope, c),
            !.falls  = SlopesCheck(w.falls, ws, reg.slope, f),
            !.coasts = SlopesCheck(w.coasts, ws, reg.slope, q),
            !.summary = << SlopesCheckResult(w.climbs, c),
                           SlopesCheckResult(w.falls, f),
                           SlopesCheckResult(w.coasts, q),
                           climbing >>,
            !.slope_climbing = climbing,
            !.prev_slope = w.last_slope,
            !.last_slope = reg.slope,
            !.last_variance = reg.variance ]

WindowSampleResets(w, samples) ==
    LET ws == WindowSamples(w, samples)
    IN  IF Len(ws) <= 1 THEN [w EXCEPT !.slope_climbing = FALSE]
        ELSE WindowAnalyse(w, ws)

\* Window.sample
WindowSample(w, samples) ==
    LET ws == WindowSamples(w, samples)
    IN  IF Len(ws) <= 1 THEN w
        ELSE WindowAnalyse(w, ws)

-----------------------------------------------------------------------------
(* A Window called on a growing, time-ordered list of samples *)

\* at most this many calls of Window.sample are made
MaxWindowCalls == 5

WindowRates == {55, 56, 62}

\* the seconds between the newest sample of one call and that of the next
WindowSteps == {3, 11}

WindowInit == win = [window |-> WindowNew(10), samples |-> <<>>]

WindowIdle == win = [window |-> WindowNew(10), samples |-> <<>>]

\* one call of Window.sample, on the list of the previous call and one
\* more sample
WindowCall ==
    /\ Len(win.samples) < MaxWindowCalls
    /\ \E rate \in WindowRates, step \in WindowSteps :
          LET time    == IF win.samples = <<>> THEN 0 ELSE Last(win.samples).time + step
              samples == Append(win.samples, [time |-> time, rate |-> rate])
          IN  win' = [window  |-> WindowSample(win.window, samples),
                      samples |-> samples]
    /\ UNCHANGED <<slopeVars, slopesVars, gyroVars, heartVars, compVars, busVars, headVars, outputVars, patternVars, playerVars, discoveryVars, coyoteVars, headPosVars, buttplugVars, lightsVars>>

-----------------------------------------------------------------------------
(* class HSpan, class Excitement *)

\* deque(maxlen=20)
history_maxlen == 20

\* HSpan.__init__
HSpanNew(sample) == [min_sample |-> sample, max_sample |-> sample]

HSpanAddMin(h, sample) == [h EXCEPT !.min_sample = sample]

\* HSpan.add
HSpanAdd(h, sample) == [h EXCEPT !.max_sample = sample]

\* Excitement.__init__.  threshold holds the local variable of that name of
\* the latest check_history call, None when the call did not assign it
ExcitementNew ==
    [ samples       |-> <<>>,
      threshold     |-> None,
      history       |-> <<>>,
      window        |-> WindowNew(10),
      hspans        |-> <<>>,
      current_hspan |-> None,
      interesting   |-> FALSE,
      last_sample   |-> None ]

\* Slope.mid_rate
MidRate(s) == Rat(s.min_rate + s.max_rate, 2)

\* the recovery threshold of check_history, given that a fall or a coast
\* has been committed
Threshold(w) ==
    LET last_fall  == IF w.falls.slopes # <<>> THEN Some(Last(w.falls.slopes)) ELSE None
        last_coast == IF w.coasts.slopes # <<>> THEN Some(Last(w.coasts.slopes)) ELSE None
    IN  IF last_fall = None
        THEN LET m == MidRate(The(last_coast)) IN Rat(m.n + m.d, m.d)
        ELSE IF last_coast = None
        THEN Rat(The(last_fall).min_rate, 1)
        ELSE IF Last(The(last_coast).samples).time < Last(The(last_fall).samples).time
        THEN Rat(The(last_fall).min_rate, 1)
        ELSE MidRate(The(last_coast))

\* the test of check_history that sets interesting, without the rise of the rate
InterestingNoRise(w, prev_rate, cur_rate) ==
    /\ w.slope_climbing
    /\ (w.falls.slopes # <<>> \/ w.coasts.slopes # <<>>)
    /\ ~RatLt(Rat(cur_rate, 1), Threshold(w))
    /\ w.falls.current = None

\* the test of check_history that sets interesting
Interesting(w, prev_rate, cur_rate) ==
    /\ w.slope_climbing
    /\ (w.falls.slopes # <<>> \/ w.coasts.slopes # <<>>)
    /\ cur_rate > prev_rate
    /\ ~RatLt(Rat(cur_rate, 1), Threshold(w))
    /\ w.falls.current = None

\* whether check_history evaluates the threshold
ThresholdEvaluated(w) ==
    w.slope_climbing /\ (w.falls.slopes # <<>> \/ w.coasts.slopes # <<>>)

\* Excitement.check_history
CheckHistory(e) ==
    LET samples == e.history
    IN  IF Len(samples) < 2 THEN [e EXCEPT !.threshold = None]
        ELSE LET w == WindowSample(e.window, samples)
                 prev_rate == samples[Len(samples) - 1].rate
                 cur_rate  == Last(samples).rate
                 interesting == Interesting(w, prev_rate, cur_rate)
             IN  [ e EXCEPT
                     !.window = w,
                     !.threshold = IF ThresholdEvaluated(w)
                                   THEN Some(Threshold(w)) ELSE None,
                     !.interesting = interesting,
                     !.current_hspan =
                         IF interesting
                         THEN IF e.current_hspan = None
                              THEN Some(HSpanNew(Last(samples)))
                              ELSE Some(HSpanAdd(The(e.current_hspan), Last(samples)))
                         ELSE None,
                     !.hspans =
                         IF ~interesting /\ e.current_hspan # None
                         THEN Append(e.hspans, The(e.current_hspan))
                         ELSE e.hspans ]

\* HeartReceiver.read_socket / read_file on one sample, then
\* Excitement.process_sample
ProcessSample(e, sample) ==
    CheckHistory([ e EXCEPT
                     !.samples = Append(e.samples, sample),
                     !.last_sample = Some(sample),
                     !.history = DequeAppend(e.history, sample, history_maxlen) ])

-----------------------------------------------------------------------------
(* The Excitement detector fed a time-ordered stream of samples *)

\* at most this many samples are received
MaxSamples == 5

HeartRates == {53, 55, 56, 62}

\* the seconds between one sample and the next
HeartSteps == {5, 10}

\* a longer silence, of more than the width of the window, may follow the
\* samples of these ranks
HeartGapAfter == {3}

HeartGaps == {11}

StepsAfter(n) == HeartSteps \cup (IF n \in HeartGapAfter THEN HeartGaps ELSE {})

HeartInit == exc = ExcitementNew

HeartIdle == exc = ExcitementNew

Sample ==
    /\ Len(exc.samples) < MaxSamples
    /\ \E rate \in HeartRates, step \in StepsAfter(Len(exc.samples)) :
          LET time == IF exc.samples = <<>> THEN 0 ELSE Last(exc.samples).time + step
          IN  exc' = ProcessSample(exc, [time |-> time, rate |-> rate])
    /\ UNCHANGED <<slopeVars, slopesVars, gyroVars, compVars, busVars, headVars, windowVars, outputVars, patternVars, playerVars, discoveryVars, coyoteVars, headPosVars, buttplugVars, lightsVars>>

-----------------------------------------------------------------------------
(* The Excitement detector fed a stream longer than its history *)

\* at most this many samples are received
MaxLongSamples == 22

\* at most this many of them differ from the resting rate
MaxOddSamples == 1

LongRest == {60}

LongOdd == {70}

LongSteps == {5}

OddSamples(samples) == Len(SelectSeq(samples, LAMBDA x : x.rate \in LongOdd))

SampleLong ==
    /\ Len(exc.samples) < MaxLongSamples
    /\ \E rate \in LongRest \cup
                   (IF OddSamples(exc.samples) < MaxOddSamples THEN LongOdd ELSE {}),
          step \in LongSteps :
          LET time == IF exc.samples = <<>> THEN 0 ELSE Last(exc.samples).time + step
          IN  exc' = ProcessSample(exc, [time |-> time, rate |-> rate])
    /\ UNCHANGED <<slopeVars, slopesVars, gyroVars, compVars, busVars, headVars, windowVars, outputVars, patternVars, playerVars, discoveryVars, coyoteVars, headPosVars, buttplugVars, lightsVars>>

-----------------------------------------------------------------------------
(* The asyncio components.  One component is added to the app and run; the *)
(* hub, the sockets, the subprocess and the BLE device are environment.    *)

\* A Message, told apart by its class (kind); src, output and power are the
\* fields the run loops read
Msg(kind) == [kind |-> kind]

Shutdown == Msg("Shutdown")

BluetoothDisconnect == Msg("BluetoothDisconnect")

\* AIOComponent.receive(): the message joins the mailbox
Receive(c, msg) == [c EXCEPT !.mailbox = Append(@, msg)]

\* AIOComponent.next_message() returning the head of the mailbox; taken
\* counts the messages next_message() has returned, shutdown_taken tells
\* whether a Shutdown was one of them
Taken(c) ==
    [c EXCEPT !.mailbox = Tail(@), !.taken = @ + 1,
              !.shutdown_taken = @ \/ Head(c.mailbox).kind = "Shutdown"]

MaxMsgs == 2

MaxFailures == 2

\* a count of failures, kept up to MaxFailures
Counted(n) == IF n < MaxFailures THEN n + 1 ELSE n

-----------------------------------------------------------------------------
(* class BluetoothComponent (stim/bluetooth.py) and class Coyote *)

\* asyncio.sleep(0.3), in tenths of a second
connect_retry_wait == 3

\* pc          where run() is: "start", "wait" (in next_message), "run_end",
\*             "await_task" (in run_end's await), "done"
\* connect     the _connect() task: "none", "attempt" (in client.connect()),
\*             "sleep", "finished", "cancelling" (cancel() requested),
\*             "cancelled"
\* connect_task  the attribute: None or the task
\* wait        the sleep the _connect() task armed last
\* failures    the connect() calls that raised BleakError so far
\* timer       Coyote's _timer_task(): "none", "sleep", "on_timer"
\* error       the exception run() ends with, "none" when it returns
\* in_range    whether the device can be reached at all
BluetoothComponentNew(in_range) ==
    [pc |-> "start", mailbox |-> <<>>, taken |-> 0, shutdown_taken |-> FALSE,
     connect_task |-> None, connect |-> "none", wait |-> 0, failures |-> 0,
     timer |-> "none", connected |-> FALSE, error |-> "none",
     in_range |-> in_range]

\* BluetoothComponent.run_start
BtRunStarted(b) ==
    [b EXCEPT !.connect_task = Some("_connect"), !.connect = "attempt", !.pc = "wait"]

\* Coyote.run_start: super().run_start(), then a task nothing refers to
CoyoteRunStarted(b) == [BtRunStarted(b) EXCEPT !.timer = "sleep"]

BtConnectErrorBackoff(b) ==
    [b EXCEPT !.connect = "sleep",
              !.wait = IF @ = 0 THEN connect_retry_wait ELSE 2 * @,
              !.failures = Counted(@)]

\* _connect: client.connect() raised BleakError; it is printed and the task
\* sleeps before the next attempt
BtConnectError(b) ==
    [b EXCEPT !.connect = "sleep", !.wait = connect_retry_wait, !.failures = Counted(@)]

\* _connect: client.connect() returned; the loop is left
BtConnected(b) ==
    [b EXCEPT !.connect = "finished", !.connect_task = None, !.connected = TRUE]

\* run: one message of the match statement
BtOnMessage(b, msg) ==
    CASE msg.kind = "Shutdown" -> [b EXCEPT !.pc = "run_end"]
      [] msg.kind = "BluetoothDisconnect" ->
            IF b.connect_task = None
            \* create_task on a TaskGroup that was never entered
            THEN [b EXCEPT !.pc = "run_end", !.error = "RuntimeError"]
            ELSE b
      \* run_message(self) called with one argument too many
      [] OTHER -> [b EXCEPT !.pc = "run_end", !.error = "TypeError"]

BtRunEndNoCancel(b) ==
    IF b.connect_task # None
    THEN [b EXCEPT !.pc = "await_task"]
    ELSE [b EXCEPT !.pc = "done"]

\* run_end up to its await: the connect task is cancelled
BtRunEnd(b) ==
    IF b.connect_task # None
    THEN [b EXCEPT !.pc = "await_task",
                   !.connect = IF @ \in {"attempt", "sleep"} THEN "cancelling" ELSE @]
    ELSE [b EXCEPT !.pc = "done"]

\* run_end's await returns or raises once the task has ended
BtTaskEnded(b) == b.connect \in {"finished", "cancelled"}

BtRunEndAwaited(b) ==
    IF b.connect = "finished"
    THEN [b EXCEPT !.pc = "done", !.connect_task = None]
    ELSE [b EXCEPT !.pc = "done", !.error = "CancelledError"]

BtMessages == {Shutdown, BluetoothDisconnect, Msg("SetPower")}

BtActive == app \in {"BluetoothComponent", "Coyote"}

BtIdle == bt = BluetoothComponentNew(FALSE)

\* the hub hands a message to the component
BtReceive ==
    /\ BtActive
    /\ Len(bt.mailbox) + bt.taken < MaxMsgs
    /\ \E msg \in BtMessages : bt' = Receive(bt, msg)
    /\ UNCHANGED exceptBt

BtRunStart ==
    /\ BtActive
    /\ bt.pc = "start"
    /\ bt' = IF app = "Coyote" THEN CoyoteRunStarted(bt) ELSE BtRunStarted(bt)
    /\ UNCHANGED exceptBt

\* client.connect() raises BleakError: the device is out of range or the
\* attempt times out
BtConnectFails ==
    /\ BtActive
    /\ bt.connect = "attempt"
    /\ bt' = BtConnectError(bt)
    /\ UNCHANGED exceptBt

BtConnectSucceeds ==
    /\ BtActive
    /\ bt.connect = "attempt"
    /\ bt.in_range
    /\ bt' = BtConnected(bt)
    /\ UNCHANGED exceptBt

\* asyncio.sleep(0.3) returns and the loop of _connect goes round
BtSleepDone ==
    /\ BtActive
    /\ bt.connect = "sleep"
    /\ bt' = [bt EXCEPT !.connect = "attempt"]
    /\ UNCHANGED exceptBt

\* _timer_task: while True, sleep(0.1) and _on_timer(), which returns at once
\* while the device power equals the power asked for
CoyoteTimer ==
    /\ app = "Coyote"
    /\ bt.timer \in {"sleep", "on_timer"}
    /\ bt' = [bt EXCEPT !.timer = IF @ = "sleep" THEN "on_timer" ELSE "sleep"]
    /\ UNCHANGED exceptBt

BtNextMessage ==
    /\ BtActive
    /\ bt.pc = "wait"
    /\ bt.mailbox # <<>>
    /\ bt' = BtOnMessage(Taken(bt), Head(bt.mailbox))
    /\ UNCHANGED exceptBt

BtRunEndStep ==
    /\ BtActive
    /\ bt.pc = "run_end"
    /\ bt' = BtRunEnd(bt)
    /\ UNCHANGED exceptBt

\* the cancelled _connect() task gets CancelledError at its await and ends
BtConnectCancelled ==
    /\ BtActive
    /\ bt.connect = "cancelling"
    /\ bt' = [bt EXCEPT !.connect = "cancelled"]
    /\ UNCHANGED exceptBt

BtRunEndAwait ==
    /\ BtActive
    /\ bt.pc = "await_task"
    /\ BtTaskEnded(bt)
    /\ bt' = BtRunEndAwaited(bt)
    /\ UNCHANGED exceptBt

-----------------------------------------------------------------------------
(* class NullOutput (stim/output.py) *)

SetPower(output, power) == [kind |-> "SetPower", output |-> output, power |-> power]

NullOutputNew ==
    [pc |-> "wait", mailbox |-> <<>>, taken |-> 0, shutdown_taken |-> FALSE,
     power |-> 0]

NullOnMessageNoBreak(n, msg) ==
    CASE msg.kind = "SetPower" ->
            IF msg.output = "self" THEN [n EXCEPT !.power = msg.power] ELSE n
      [] OTHER -> n

\* run: one message of the match statement
NullOnMessage(n, msg) ==
    CASE msg.kind = "Shutdown" -> [n EXCEPT !.pc = "done"]
      [] msg.kind = "SetPower" ->
            IF msg.output = "self" THEN [n EXCEPT !.power = msg.power] ELSE n
      [] OTHER -> n

NullMessages ==
    {Shutdown, Msg("SetColor")} \cup {SetPower(o, p) : o \in {"self", "other"}, p \in {1, 2}}

NullIdle == nullout = NullOutputNew

NullReceive ==
    /\ app = "NullOutput"
    /\ Len(nullout.mailbox) + nullout.taken < MaxMsgs
    /\ \E msg \in NullMessages : nullout' = Receive(nullout, msg)
    /\ UNCHANGED exceptNull

NullNextMessage ==
    /\ app = "NullOutput"
    /\ nullout.pc = "wait"
    /\ nullout.mailbox # <<>>
    /\ nullout' = NullOnMessage(Taken(nullout), Head(nullout.mailbox))
    /\ UNCHANGED exceptNull

-----------------------------------------------------------------------------
(* class CncInput (stim/cnc.py) *)

\* next_message(timeout=0.5), in tenths of a second
poll_timeout == 5

\* an asyncio.Task: not created, pending, or done with its result
NoTask == [st |-> "none", res |-> "-"]

Pending == [st |-> "pending", res |-> "-"]

Done(res) == [st |-> "done", res |-> res]

InputSetActive(input, value) == [kind |-> "InputSetActive", input |-> input, value |-> value]

\* The lines the socket carries: text that is no JSON document, or an object
\* with the keys value and name
CncLine(value, name) == [json |-> TRUE, value |-> value, name |-> name]

Garbage == [json |-> FALSE]

\* pc        "connect" (in open_unix_connection), "poll_wait" (in
\*           next_message(timeout=0.5)), "read" (in asyncio.wait), "done"
\* socket    "refusing" until something listens on the path, then "listening"
\* wait      the timeout armed by the latest poll; refusals counts the
\*           ConnectionRefusedError raised so far
\* lines     what the peer wrote and readline() has not returned yet, written
\*           the number of lines it wrote
\* sent      the messages given to send()
CncInputNew ==
    [pc |-> "connect", mailbox |-> <<>>, taken |-> 0, shutdown_taken |-> FALSE,
     active |-> FALSE, task_msg |-> NoTask, task_line |-> NoTask,
     socket |-> "refusing", lines |-> <<>>, written |-> 0, sent |-> <<>>,
     wait |-> 0, refusals |-> 0, error |-> "none"]

\* run: open_unix_connection raised ConnectionRefusedError
CncRefused(c) == [c EXCEPT !.pc = "poll_wait", !.wait = poll_timeout, !.refusals = Counted(@)]

\* run: the connection is open, the two tasks are created
CncConnected(c) == [c EXCEPT !.pc = "read", !.task_msg = Pending, !.task_line = Pending]

\* run: what next_message(timeout=0.5) returned, None after the timeout
CncPolled(c, msg) ==
    IF msg # None /\ The(msg).kind = "Shutdown"
    THEN [c EXCEPT !.pc = "done"]
    ELSE [c EXCEPT !.pc = "connect"]

\* run: "if task_msg in done"
CncOnMessage(c) ==
    LET msg == c.task_msg.res
    IN  CASE msg.kind = "Shutdown" -> [c EXCEPT !.pc = "done"]
          [] msg.kind = "InputSetActive" ->
                [c EXCEPT !.active = IF msg.input = "self" THEN msg.value ELSE @,
                          !.task_msg = Pending]
          [] OTHER -> [c EXCEPT !.task_msg = Pending]

\* json.loads: the document, None where it raises JSONDecodeError
JsonLoads(line) == IF line.json THEN Some(line) ELSE None

\* run: "if task_line in done"
CncOnLine(c) ==
    LET data == JsonLoads(c.task_line.res)
    IN  IF data = None
        THEN [c EXCEPT !.pc = "done", !.error = "JSONDecodeError"]
        ELSE LET d == The(data)
                 out == IF d.value # 0 /\ c.active
                        THEN (IF d.name = "EMERGENCY" THEN <<Msg("EmergencyStop")>> ELSE <<>>)
                             \o <<[kind |-> "CncCommand", command |-> d.name]>>
                        ELSE <<>>
             IN  [c EXCEPT !.sent = @ \o out, !.task_line = Pending]

\* run: one round of the read loop after asyncio.wait returned
CncRound(c) ==
    LET m == IF c.task_msg.st = "done" THEN CncOnMessage(c) ELSE c
    IN  IF m.pc = "done" THEN m
        ELSE IF m.task_line.st = "done" THEN CncOnLine(m) ELSE m

CncMessages == {Shutdown, InputSetActive("self", TRUE), InputSetActive("other", TRUE)}

CncLines == {Garbage, CncLine(0, "START"), CncLine(1, "START"), CncLine(1, "EMERGENCY")}

MaxLines == 1

CncIdle == cnc = CncInputNew

CncReceive ==
    /\ app = "CncInput"
    /\ Len(cnc.mailbox) + cnc.taken < MaxMsgs
    /\ \E msg \in CncMessages : cnc' = Receive(cnc, msg)
    /\ UNCHANGED exceptCnc

\* a server starts listening on the socket path
CncListen ==
    /\ app = "CncInput"
    /\ cnc.socket = "refusing"
    /\ cnc' = [cnc EXCEPT !.socket = "listening"]
    /\ UNCHANGED exceptCnc

\* the peer writes a line
CncWrite ==
    /\ app = "CncInput"
    /\ cnc.pc = "read"
    /\ cnc.written < MaxLines
    /\ \E line \in CncLines :
          cnc' = [cnc EXCEPT !.lines = Append(@, line), !.written = @ + 1]
    /\ UNCHANGED exceptCnc

\* open_unix_connection returns or raises ConnectionRefusedError
CncConnect ==
    /\ app = "CncInput"
    /\ cnc.pc = "connect"
    /\ cnc' = IF cnc.socket = "listening" THEN CncConnected(cnc) ELSE CncRefused(cnc)
    /\ UNCHANGED exceptCnc

\* next_message(timeout=0.5) returns the head of the mailbox
CncPollMessage ==
    /\ app = "CncInput"
    /\ cnc.pc = "poll_wait"
    /\ cnc.mailbox # <<>>
    /\ cnc' = CncPolled(Taken(cnc), Some(Head(cnc.mailbox)))
    /\ UNCHANGED exceptCnc

\* next_message(timeout=0.5) returns None: the mailbox stayed empty
CncPollTimeout ==
    /\ app = "CncInput"
    /\ cnc.pc = "poll_wait"
    /\ cnc.mailbox = <<>>
    /\ cnc' = CncPolled(cnc, None)
    /\ UNCHANGED exceptCnc

\* the task of next_message() completes
CncTaskMsg ==
    /\ app = "CncInput"
    /\ cnc.task_msg.st = "pending"
    /\ cnc.mailbox # <<>>
    /\ cnc' = [Taken(cnc) EXCEPT !.task_msg = Done(Head(cnc.mailbox))]
    /\ UNCHANGED exceptCnc

\* the task of reader.readline() completes
CncTaskLine ==
    /\ app = "CncInput"
    /\ cnc.task_line.st = "pending"
    /\ cnc.lines # <<>>
    /\ cnc' = [cnc EXCEPT !.task_line = Done(Head(cnc.lines)), !.lines = Tail(@)]
    /\ UNCHANGED exceptCnc

\* asyncio.wait(..., FIRST_COMPLETED) returns and the round is run
CncWait ==
    /\ app = "CncInput"
    /\ cnc.pc = "read"
    /\ cnc.task_msg.st = "done" \/ cnc.task_line.st = "done"
    /\ cnc' = CncRound(cnc)
    /\ UNCHANGED exceptCnc

-----------------------------------------------------------------------------
(* class TestOutput (stim/outputs/test.py) *)

\* A line of the subprocess' stdout: whether json.loads and the two pops
\* succeed, whether the module and class are found, whether the class takes
\* the arguments
TestLine(parsed, found, built) == [parsed |-> parsed, found |-> found, built |-> built]

\* pc        "spawn", "wait" (in next_message), "finally", "await_task", "done"
\* reader    the _read_stdout() task: "none", "reading" (in readline),
\*           "finished", "cancelling", "cancelled"
\* stdout    the lines readline() has not returned yet; eof: the pipe is
\*           closed; written: the number of lines the subprocess wrote
\* stdin     the messages written to the subprocess; sent: given to send()
TestOutputNew ==
    [pc |-> "spawn", mailbox |-> <<>>, taken |-> 0, shutdown_taken |-> FALSE,
     read_stdin_task |-> None,
     reader |-> "none", stdout |-> <<>>, eof |-> FALSE, written |-> 0,
     stdin |-> <<>>, sent |-> <<>>, skipped |-> 0, error |-> "none"]

\* _read_stdout: one line through the three try blocks; skipped counts the
\* lines logged and passed over
ReadStdoutLine(t, line) ==
    IF line.parsed /\ line.found /\ line.built
    THEN [t EXCEPT !.sent = Append(@, [kind |-> "FromLine", src |-> "self"])]
    ELSE [t EXCEPT !.skipped = @ + 1]

\* _read_stdout: the finally clause, on end of file and on cancellation
ReadStdoutEnd(t, how) == [Receive(t, Shutdown) EXCEPT !.reader = how]

\* run: one message of the match statement
TestOnMessage(t, msg) ==
    CASE msg.kind = "Shutdown" -> [t EXCEPT !.pc = "finally"]
      [] OTHER -> IF msg.src # "self" THEN [t EXCEPT !.stdin = Append(@, msg)] ELSE t

\* run: the finally clause up to its await
TestFinally(t) ==
    IF t.read_stdin_task # None
    THEN [t EXCEPT !.pc = "await_task",
                   !.reader = IF @ = "reading" THEN "cancelling" ELSE @]
    ELSE [t EXCEPT !.pc = "done"]

\* run: the await of the finally clause returns or raises CancelledError
TestAwaited(t) ==
    IF t.reader = "finished"
    THEN [t EXCEPT !.pc = "done", !.read_stdin_task = None]
    ELSE [t EXCEPT !.pc = "done", !.error = "CancelledError"]

TestMessages == {Shutdown, [kind |-> "SetPower", src |-> "self"],
                 [kind |-> "SetPower", src |-> "other"]}

TestLines == {TestLine(FALSE, FALSE, FALSE), TestLine(TRUE, FALSE, FALSE),
              TestLine(TRUE, TRUE, FALSE), TestLine(TRUE, TRUE, TRUE)}

TestIdle == test = TestOutputNew

TestReceive ==
    /\ app = "TestOutput"
    /\ Len(test.mailbox) + test.taken < MaxMsgs
    /\ \E msg \in TestMessages : test' = Receive(test, msg)
    /\ UNCHANGED exceptTest

\* run: the subprocess is created, then the reader task
TestSpawn ==
    /\ app = "TestOutput"
    /\ test.pc = "spawn"
    /\ test' = [test EXCEPT !.pc = "wait", !.read_stdin_task = Some("_read_stdout"),
                            !.reader = "reading"]
    /\ UNCHANGED exceptTest

\* the subprocess writes a line
TestWrite ==
    /\ app = "TestOutput"
    /\ test.pc # "spawn"
    /\ ~test.eof
    /\ test.written < MaxLines
    /\ \E line \in TestLines :
          test' = [test EXCEPT !.stdout = Append(@, line), !.written = @ + 1]
    /\ UNCHANGED exceptTest

\* the subprocess closes its stdout
TestClose ==
    /\ app = "TestOutput"
    /\ test.pc # "spawn"
    /\ ~test.eof
    /\ test' = [test EXCEPT !.eof = TRUE]
    /\ UNCHANGED exceptTest

\* _read_stdout: readline() returns a line, or b"" at end of file
TestReadline ==
    /\ app = "TestOutput"
    /\ test.reader = "reading"
    /\ \/ /\ test.stdout # <<>>
          /\ test' = ReadStdoutLine([test EXCEPT !.stdout = Tail(@)], Head(test.stdout))
       \/ /\ test.stdout = <<>>
          /\ test.eof
          /\ test' = ReadStdoutEnd(test, "finished")
    /\ UNCHANGED exceptTest

\* the cancelled reader gets CancelledError at its readline()
TestReaderCancelled ==
    /\ app = "TestOutput"
    /\ test.reader = "cancelling"
    /\ test' = ReadStdoutEnd(test, "cancelled")
    /\ UNCHANGED exceptTest

TestNextMessage ==
    /\ app = "TestOutput"
    /\ test.pc = "wait"
    /\ test.mailbox # <<>>
    /\ test' = TestOnMessage(Taken(test), Head(test.mailbox))
    /\ UNCHANGED exceptTest

TestFinallyStep ==
    /\ app = "TestOutput"
    /\ test.pc = "finally"
    /\ test' = TestFinally(test)
    /\ UNCHANGED exceptTest

TestAwait ==
    /\ app = "TestOutput"
    /\ test.pc = "await_task"
    /\ test.reader \in {"finished", "cancelled"}
    /\ test' = TestAwaited(test)
    /\ UNCHANGED exceptTest

-----------------------------------------------------------------------------
(* class HeartReceiver (stim/heart/receiver.py), reading a socket *)

\* A line of the socket: a JSON document holding samples, or text that is
\* no JSON document
HeartLine(samples) == [json |-> TRUE, samples |-> samples]

\* pc      "initial" (in the first readline), "read" (in the readline of the
\*         loop), "done"
HeartReceiverNew ==
    [pc |-> "initial", samples |-> <<>>, shutting_down |-> FALSE,
     lines |-> <<>>, eof |-> FALSE, written |-> 0, error |-> "none"]

\* read_socket: the while condition before readline() is awaited
HrLoop(h) == [h EXCEPT !.pc = IF h.shutting_down THEN "done" ELSE "read"]

\* read_socket: json.loads of a line and the samples it holds
HrOnLine(h, line) ==
    LET data == JsonLoads(line)
    IN  IF data = None
        THEN [h EXCEPT !.pc = "done", !.error = "JSONDecodeError"]
        ELSE HrLoop([h EXCEPT !.samples = @ \o The(data).samples])

HrLines == {Garbage, HeartLine(<<60>>), HeartLine(<<70>>)}

HrIdle == hr = HeartReceiverNew

\* the sender writes a line: first the backlog, then one sample a line
HrWrite ==
    /\ app = "HeartReceiver"
    /\ ~hr.eof
    /\ hr.written < MaxLines + 1
    /\ \E line \in HrLines :
          hr' = [hr EXCEPT !.lines = Append(@, line), !.written = @ + 1]
    /\ UNCHANGED exceptHr

HrClose ==
    /\ app = "HeartReceiver"
    /\ ~hr.eof
    /\ hr' = [hr EXCEPT !.eof = TRUE]
    /\ UNCHANGED exceptHr

\* HeartReceiver.shutdown
HrShutdown ==
    /\ app = "HeartReceiver"
    /\ ~hr.shutting_down
    /\ hr' = [hr EXCEPT !.shutting_down = TRUE]
    /\ UNCHANGED exceptHr

\* readline() returns a line, or b"" at end of file
HrReadline ==
    /\ app = "HeartReceiver"
    /\ hr.pc \in {"initial", "read"}
    /\ \/ /\ hr.lines # <<>>
          /\ hr' = HrOnLine([hr EXCEPT !.lines = Tail(@)], Head(hr.lines))
       \/ /\ hr.lines = <<>>
          /\ hr.eof
          /\ hr' = IF hr.pc = "initial"
                   THEN [hr EXCEPT !.pc = "done", !.error = "JSONDecodeError"]
                   ELSE [hr EXCEPT !.pc = "done"]
    /\ UNCHANGED exceptHr

-----------------------------------------------------------------------------
(* The message bus: Component.send, the hubs' incoming queues, the        *)
(* dispatch to the mailboxes and the components taking their messages     *)

Hubs == {"aio", "gtk"}

\* the components that send, and the hub each belongs to
Senders == {"cnc", "manual"}

\* the components whose mailbox is followed
Subscribers == {"null", "player"}

HubOf(c) == IF c \in {"cnc", "null"} THEN "aio" ELSE "gtk"

MaxSends == 2

\* nsent    the number of messages each sender has sent
\* link     the messages handed from one hub to another and not yet on the
\*          other hub's incoming queue, per pair of hubs
\* queue    the incoming queue of each hub
\* mailbox  the mailbox of each subscriber
\* seen     the messages each subscriber has taken from its mailbox, in order
BusNew ==
    [nsent |-> [s \in Senders |-> 0],
     link |-> [p \in Hubs \X Hubs |-> <<>>],
     queue |-> [h \in Hubs |-> <<>>],
     mailbox |-> [c \in Subscribers |-> <<>>],
     seen |-> [c \in Subscribers |-> <<>>]]

\* Component.send: the message joins the incoming queue of the sender's hub
\* and is handed over to every other hub
BusSend(b, s) ==
    LET msg == [src |-> s, n |-> b.nsent[s] + 1]
        own == HubOf(s)
    IN  [b EXCEPT !.nsent[s] = @ + 1,
                  !.queue[own] = Append(@, msg),
                  !.link = [p \in Hubs \X Hubs |->
                              IF p[1] = own /\ p[2] # own THEN Append(@[p], msg) ELSE @[p]]]

\* a message handed over by another hub joins the incoming queue
BusTransfer(b, from, to) ==
    [b EXCEPT !.link[<<from, to>>] = Tail(@),
              !.queue[to] = Append(@, Head(b.link[<<from, to>>]))]

BusDispatchNewestFirst(b, h) ==
    LET q == b.queue[h]
    IN  [b EXCEPT !.queue[h] = SubSeq(q, 1, Len(q) - 1),
                  !.mailbox = [c \in Subscribers |->
                                 IF HubOf(c) = h THEN Append(@[c], q[Len(q)]) ELSE @[c]]]

\* the hub's dispatcher: the oldest message of the incoming queue is given
\* to receive() of every component of the hub
BusDispatch(b, h) ==
    [b EXCEPT !.queue[h] = Tail(@),
              !.mailbox = [c \in Subscribers |->
                             IF HubOf(c) = h THEN Append(@[c], Head(b.queue[h])) ELSE @[c]]]

\* a subscriber's run loop takes the head of its mailbox
BusTake(b, c) ==
    [b EXCEPT !.mailbox[c] = Tail(@), !.seen[c] = Append(@, Head(b.mailbox[c]))]

BusIdle == bus = BusNew

Send ==
    /\ \E s \in Senders :
          /\ bus.nsent[s] < MaxSends
          /\ bus' = BusSend(bus, s)
    /\ UNCHANGED exceptBus

Transfer ==
    /\ \E from \in Hubs, to \in Hubs :
          /\ bus.link[<<from, to>>] # <<>>
          /\ bus' = BusTransfer(bus, from, to)
    /\ UNCHANGED exceptBus

Dispatch ==
    /\ \E h \in Hubs :
          /\ bus.queue[h] # <<>>
          /\ bus' = BusDispatch(bus, h)
    /\ UNCHANGED exceptBus

Take ==
    /\ \E c \in Subscribers :
          /\ bus.mailbox[c] # <<>>
          /\ bus' = BusTake(bus, c)
    /\ UNCHANGED exceptBus

\* no component is run
CompIdle ==
    /\ app = "none"
    /\ BtIdle
    /\ CncIdle
    /\ NullIdle
    /\ TestIdle
    /\ HrIdle

Apps == {"BluetoothComponent", "Coyote", "CncInput", "NullOutput", "TestOutput",
         "HeartReceiver"}

\* App.add_component: the component is constructed; the device of a
\* Bluetooth component is in range or not
CompInit ==
    /\ app \in Apps
    /\ bt \in {BluetoothComponentNew(in_range) :
                  in_range \in (IF BtActive THEN BOOLEAN ELSE {FALSE})}
    /\ CncIdle
    /\ NullIdle
    /\ TestIdle
    /\ HrIdle

-----------------------------------------------------------------------------
(* class OutputController (stim/output.py).  Power values, the bounds of   *)
(* the Adjustments and the power of SetPower are held in halves of a       *)
(* percent: 200 is the power 1.0 and the Adjustment value 100.             *)

\* Python's round() of h halves: to the nearest integer, a tie to the even one
Round(h) ==
    IF h % 2 = 0 THEN h \div 2
    ELSE LET f == (h - 1) \div 2 IN IF f % 2 = 0 THEN f ELSE f + 1

\* OutputController.__init__.  out holds the powers of the SetPower
\* messages sent by the latest step, last the power of the latest SetPower
\* ever sent, ev the event the latest step handled; anim holds the values
\* the generators of the PowerAnimator will still yield, summed frame by
\* frame as merge() does, and timeout whether its timer is set.
OutputControllerNew ==
    [ active    |-> FALSE,
      paused    |-> FALSE,
      manual    |-> FALSE,
      power     |-> 0,
      lower     |-> 0,
      upper     |-> 200,
      power_min |-> 0,
      power_max |-> 200,
      anim      |-> <<>>,
      timeout   |-> FALSE,
      events    |-> 0,
      pulses    |-> 0,
      out       |-> <<>>,
      last      |-> None,
      ev        |-> "none" ]

\* self.send(SetPower(output=self.output, power=...))
SendPower(o, power) == [o EXCEPT !.out = Append(@, power), !.last = Some(power)]

OnPowerAlways(o) == SendPower(o, 2 * Round(o.power))

\* OutputController.on_power
OnPower(o) == IF ~o.paused THEN SendPower(o, 2 * Round(o.power)) ELSE o

\* Gtk.Adjustment.set_value on self.power: the value is clamped to the
\* bounds, and value_changed (on_power) is emitted when it has changed
PowerSetValue(o, value) ==
    LET capped  == IF value > o.upper THEN o.upper ELSE value
        clamped == IF capped < o.lower THEN o.lower ELSE capped
    IN  IF clamped = o.power THEN o ELSE OnPower([o EXCEPT !.power = clamped])

\* OutputController.on_power_min, called when power_min has changed
on_power_min(o) ==
    LET val   == Round(o.power_min)
        o1    == [o EXCEPT !.lower = 2 * val]
        power == Round(o1.power)
    IN  IF power < val THEN PowerSetValue(o1, 2 * power) ELSE o1

\* OutputController.on_power_max, called when power_max has changed
on_power_max(o) ==
    LET val   == Round(o.power_max)
        o1    == [o EXCEPT !.upper = 2 * val]
        power == Round(o1.power)
    IN  IF power > val THEN PowerSetValue(o1, 2 * power) ELSE o1

\* OutputController.set_power
set_power(o, power) == IF ~o.manual THEN PowerSetValue(o, power) ELSE o

set_animated_power_in_manual(o, power) ==
    IF ~o.paused
    THEN LET value == o.power + power
         IN  SendPower(o, IF value > 200 THEN 200 ELSE value)
    ELSE o

\* OutputController.set_animated_power
set_animated_power(o, power) ==
    IF ~o.manual /\ ~o.paused
    THEN LET value == o.power + power
         IN  SendPower(o, IF value > 200 THEN 200 ELSE value)
    ELSE o

\* OutputController.adjust_power
adjust_power(o, delta) == IF ~o.manual THEN set_power(o, o.power + delta) ELSE o

\* OutputController.set_manual_power
set_manual_power(o, power) == PowerSetValue([o EXCEPT !.manual = TRUE], power)

\* OutputController.exit_manual_mode
exit_manual_mode(o) == [o EXCEPT !.manual = FALSE]

set_paused_rounded(o, paused) ==
    IF o.paused # paused
    THEN LET o1 == [o EXCEPT !.paused = paused]
         IN  IF paused THEN SendPower(o1, 0) ELSE SendPower(o1, 2 * Round(o1.power))
    ELSE o

\* OutputController.set_paused
set_paused(o, paused) ==
    IF o.paused # paused
    THEN LET o1 == [o EXCEPT !.paused = paused]
         IN  IF paused THEN SendPower(o1, 0) ELSE SendPower(o1, o1.power)
    ELSE o

\* OutputController.on_manual
on_manual(o) ==
    LET new_state == ~o.manual
        o1 == [o EXCEPT !.manual = new_state]
    IN  IF new_state THEN set_manual_power(o1, 2 * Round(o1.power))
        ELSE exit_manual_mode(o1)

\* OutputController.on_pause
on_pause(o) == set_paused(o, ~o.paused)

\* OutputController.on_manual_power, then the default handler of the
\* Scale's change-value signal, which sets the Adjustment to the value
on_manual_power(o, value) ==
    PowerSetValue(set_manual_power(o, 2 * Round(value)), value)

\* the frame-by-frame sum of the values two sets of generators will yield
MergeSum(a, b) ==
    [i \in 1..(IF Len(a) > Len(b) THEN Len(a) ELSE Len(b)) |->
        (IF i <= Len(a) THEN a[i] ELSE 0) + (IF i <= Len(b) THEN b[i] ELSE 0)]

\* Animator.start
AnimatorStart(o, values) ==
    [o EXCEPT !.anim = MergeSum(@, values), !.timeout = TRUE]

\* Animator.on_frame
on_frame(o) ==
    IF o.anim = <<>> THEN [o EXCEPT !.timeout = FALSE]
    ELSE set_animated_power([o EXCEPT !.anim = Tail(@)], Head(o.anim))

\* OutputController.receive
receive(o, msg) ==
    CASE msg.kind = "EmergencyStop" -> set_paused(set_power(o, 0), TRUE)
      [] msg.kind = "Pause" -> IF o.active THEN set_paused(o, TRUE) ELSE o
      [] msg.kind = "Resume" -> IF o.active THEN set_paused(o, FALSE) ELSE o
      [] msg.kind = "Increment" -> IF o.active THEN adjust_power(o, 2 * 2) ELSE o
      [] msg.kind = "Decrement" -> IF o.active THEN adjust_power(o, 2 * (-2)) ELSE o
      [] msg.kind = "SetActivePower" ->
            IF o.active THEN set_power(o, 2 * Round(msg.power)) ELSE o
      [] msg.kind = "IncreaseActivePower" ->
            IF o.active
            THEN IF msg.animation THEN AnimatorStart(o, msg.values)
                 ELSE adjust_power(o, msg.amount)
            ELSE o
      [] OTHER -> o

-----------------------------------------------------------------------------
(* An OutputController under messages, user actions and animation frames *)

\* at most this many events are handled
MaxEvents == 7

\* at most this many PowerPulse animations are started
MaxPulses == 1

\* SetActivePower(power=0), (power=0.255), IncreaseActivePower(amount=0.5)
\* and IncreaseActivePower(amount=PowerPulse(power=0.1)) on two frames
OcMessages ==
    {[kind |-> k] : k \in {"EmergencyStop", "Pause", "Resume", "Increment", "Decrement"}}
    \cup {[kind |-> "SetActivePower", power |-> p] : p \in {0, 51}}
    \cup {[kind |-> "IncreaseActivePower", animation |-> FALSE, amount |-> 1,
           values |-> <<>>],
          [kind |-> "IncreaseActivePower", animation |-> TRUE, amount |-> 0,
           values |-> <<20, 10, 0>>]}

\* the values the user gives the scale: 30, 30.5 and 100
ScaleValues == {60, 61, 200}

\* the values the user gives power_min and power_max
MinValues == {0, 40}

MaxValues == {200, 100}

Pulse(msg) == msg.kind = "IncreaseActivePower" /\ msg.animation

\* what every step does before it handles its event
Event(o, kind) == [o EXCEPT !.ev = kind, !.out = <<>>, !.events = @ + 1]

OcInit == oc = OutputControllerNew

OcIdle == oc = OutputControllerNew

OcReceive ==
    /\ oc.events < MaxEvents
    /\ \E msg \in OcMessages :
          /\ Pulse(msg) => oc.pulses < MaxPulses
          /\ oc' = receive([Event(oc, msg.kind) EXCEPT
                               !.pulses = IF Pulse(msg) THEN @ + 1 ELSE @], msg)
    /\ UNCHANGED exceptOc

\* the user toggles the Active check button: the action has no handler
\* and its state is toggled
OcToggleActive ==
    /\ oc.events < MaxEvents
    /\ oc' = [Event(oc, "active") EXCEPT !.active = ~@]
    /\ UNCHANGED exceptOc

OcTogglePause ==
    /\ oc.events < MaxEvents
    /\ oc' = on_pause(Event(oc, "on_pause"))
    /\ UNCHANGED exceptOc

OcToggleManual ==
    /\ oc.events < MaxEvents
    /\ oc' = on_manual(Event(oc, "on_manual"))
    /\ UNCHANGED exceptOc

OcScale ==
    /\ oc.events < MaxEvents
    /\ \E value \in ScaleValues : oc' = on_manual_power(Event(oc, "on_manual_power"), value)
    /\ UNCHANGED exceptOc

OcPowerMin ==
    /\ oc.events < MaxEvents
    /\ \E value \in MinValues \ {oc.power_min} :
          oc' = on_power_min([Event(oc, "on_power_min") EXCEPT !.power_min = value])
    /\ UNCHANGED exceptOc

OcPowerMax ==
    /\ oc.events < MaxEvents
    /\ \E value \in MaxValues \ {oc.power_max} :
          oc' = on_power_max([Event(oc, "on_power_max") EXCEPT !.power_max = value])
    /\ UNCHANGED exceptOc

\* the timer of the PowerAnimator fires
OcFrame ==
    /\ oc.events < MaxEvents
    /\ oc.timeout
    /\ oc' = on_frame(Event(oc, "on_frame"))
    /\ UNCHANGED exceptOc

-----------------------------------------------------------------------------
(* class Pattern (stim/pattern.py).  waves is the sequence of arrays that  *)
(* generate() yields and iter the number of them _iter_waves has given.    *)

\* Pattern.__init__ of a pattern whose generate() yields `waves`
PatternNew(waves) ==
    [ waves        |-> waves,
      iter         |-> 0,
      current_wave |-> None,
      read_offset  |-> 0,
      ended        |-> FALSE ]

NextWaveKeepOffset(pt) ==
    IF pt.iter < Len(pt.waves)
    THEN [pt EXCEPT !.iter = @ + 1, !.current_wave = Some(pt.waves[pt.iter + 1])]
    ELSE [pt EXCEPT !.ended = TRUE]

\* Pattern._next_wave: the pattern after the call; the call returns
\* whether `ended` is still false
NextWave(pt) ==
    IF pt.iter < Len(pt.waves)
    THEN [pt EXCEPT !.iter = @ + 1, !.current_wave = Some(pt.waves[pt.iter + 1]),
                    !.read_offset = 0]
    ELSE [pt EXCEPT !.ended = TRUE]

\* wave[a:b] of numpy, for 0 <= a and a <= b
Slice(wave, a, b) ==
    SubSeq(wave, a + 1, IF b < Len(wave) THEN b ELSE Len(wave))

\* the while loop of Pattern.read
RECURSIVE ReadLoop(_, _, _)
ReadLoop(pt, res, nsamples) ==
    LET size == nsamples - Len(res)
        wave == The(pt.current_wave)
    IN  IF size <= 0 \/ pt.ended THEN [pattern |-> pt, res |-> res]
        ELSE IF pt.read_offset >= Len(wave)
        THEN ReadLoop(NextWave(pt), res, nsamples)
        ELSE LET chunk == Slice(wave, pt.read_offset, pt.read_offset + size)
             IN  ReadLoop([pt EXCEPT !.read_offset = @ + Len(chunk)],
                          res \o chunk, nsamples)

\* Pattern.read: the pattern after the call and the array returned
Read(pt, nsamples) ==
    IF pt.ended THEN [pattern |-> pt, res |-> <<>>]
    ELSE LET p1 == IF pt.current_wave = None THEN NextWave(pt) ELSE pt
         IN  IF p1.ended THEN [pattern |-> p1, res |-> <<>>]
             ELSE IF Len(The(p1.current_wave)) >= p1.read_offset + nsamples
             THEN [pattern |-> [p1 EXCEPT !.read_offset = @ + nsamples],
                   res |-> Slice(The(p1.current_wave), p1.read_offset,
                                 p1.read_offset + nsamples)]
             ELSE ReadLoop(p1, <<>>, nsamples)

-----------------------------------------------------------------------------
(* A Pattern under a sequence of read() calls *)

\* at most this many read() calls are made
MaxReads == 4

\* generate() yields at most this many waves
MaxWaves == 3

\* the lengths of the waves
WaveLens == {0, 1, 3}

ReadSizes == {1, 2, 4}

\* the waves of the given lengths, their samples numbered from `first` on
RECURSIVE Numbered(_, _)
Numbered(lens, first) ==
    IF lens = <<>> THEN <<>>
    ELSE <<[i \in 1..Head(lens) |-> first + i - 1]>>
         \o Numbered(Tail(lens), first + Head(lens))

WaveLists ==
    UNION {{Numbered(lens, 1) : lens \in [1..k -> WaveLens]} : k \in 0..MaxWaves}

\* pat.got is all that the calls have returned, in order; pat.res the
\* array the latest call returned, pat.nsamples what it asked for and
\* pat.was_ended whether the pattern had ended before it
PatternInit ==
    \E waves \in WaveLists :
        pat = [pattern |-> PatternNew(waves), got |-> <<>>, res |-> <<>>,
               nsamples |-> 0, reads |-> 0, was_ended |-> FALSE]

PatternIdle ==
    pat = [pattern |-> PatternNew(<<>>), got |-> <<>>, res |-> <<>>,
           nsamples |-> 0, reads |-> 0, was_ended |-> FALSE]

PatternRead ==
    /\ pat.reads < MaxReads
    /\ \E nsamples \in ReadSizes :
          LET r == Read(pat.pattern, nsamples)
          IN  pat' = [pattern |-> r.pattern, got |-> pat.got \o r.res,
                      res |-> r.res, nsamples |-> nsamples, reads |-> pat.reads + 1,
                      was_ended |-> pat.pattern.ended]
    /\ UNCHANGED exceptPat

-----------------------------------------------------------------------------
(* class Player (stim/player.py) *)

\* Player.__init__ followed by start_mono (one pattern) or start_stereo
\* (two).  own and ev are not attributes of the class: own[i] holds the
\* samples read so far from the pattern of channel i, ev the latest call
\* and out the array the latest get_samples returned.
PlayerNew(patterns) ==
    [ channels  |-> patterns,
      overrides |-> [i \in DOMAIN patterns |-> None],
      own       |-> [i \in DOMAIN patterns |-> <<>>],
      out       |-> <<>>,
      calls     |-> 0,
      ev        |-> [kind |-> "none"] ]

\* the index set_override gives a channel name
ChannelIndex(channel_name) == IF channel_name = "right" THEN 2 ELSE 1

\* Player.set_override with a fresh pattern whose generate() yields `waves`
set_override(pl, channel_name, waves, replace) ==
    LET index == ChannelIndex(channel_name)
    IN  IF pl.overrides[index] = None \/ replace
        THEN [pl EXCEPT !.overrides[index] = Some(PatternNew(waves))]
        ELSE pl

\* wave.resize(frame_count): the wave padded with silence
Pad(wave, frame_count) ==
    [k \in 1..frame_count |-> IF k <= Len(wave) THEN wave[k] ELSE 0]

ChannelSamplesBoth(channel, override, frame_count) ==
    LET r == Read(channel, frame_count)
    IN  IF override # None
        THEN LET ro == Read(The(override), frame_count)
             IN  [channel  |-> r.pattern,
                  override |-> IF Len(ro.res) < frame_count THEN None
                               ELSE Some(ro.pattern),
                  wave     |-> Pad(ro.res, frame_count),
                  own      |-> r.res]
        ELSE [channel |-> r.pattern, override |-> None,
              wave |-> Pad(r.res, frame_count), own |-> r.res]

\* the body of the loop of get_samples for one channel: the channel's
\* pattern and its override after it, the wave of the channel, and the
\* samples taken from the channel's own pattern
ChannelSamples(channel, override, frame_count) ==
    IF override # None
    THEN LET r == Read(The(override), frame_count)
         IN  [channel  |-> channel,
              override |-> IF Len(r.res) < frame_count THEN None
                           ELSE Some(r.pattern),
              wave     |-> Pad(r.res, frame_count),
              own      |-> <<>>]
    ELSE LET r == Read(channel, frame_count)
         IN  [channel |-> r.pattern, override |-> None,
              wave |-> Pad(r.res, frame_count), own |-> r.res]

\* Player.get_samples: waves[idx::len(self.channels)] = wave for every
\* channel; with one channel the wave itself
get_samples(pl, frame_count) ==
    LET nch == Len(pl.channels)
        cs  == [i \in 1..nch |->
                  ChannelSamples(pl.channels[i], pl.overrides[i], frame_count)]
    IN  [pl EXCEPT
           !.channels  = [i \in 1..nch |-> cs[i].channel],
           !.overrides = [i \in 1..nch |-> cs[i].override],
           !.own       = [i \in 1..nch |-> pl.own[i] \o cs[i].own],
           !.out       = [k \in 1..(frame_count * nch) |->
                            cs[((k - 1) % nch) + 1].wave[((k - 1) \div nch) + 1]]]

-----------------------------------------------------------------------------
(* A Player under set_override and get_samples calls *)

\* at most this many calls are made
MaxPlayerCalls == 4

\* the patterns of the channels: three waves of three samples, numbered
\* from 1 on the first channel and from 51 on the second
PlayerPatterns ==
    {<<PatternNew(Numbered(<<3, 3, 3>>, 1))>>,
     <<PatternNew(Numbered(<<3, 3, 3>>, 1)), PatternNew(Numbered(<<3, 3, 3>>, 51))>>}

\* the waves of the overriding patterns
OverrideWaves == {Numbered(<<k>>, first) : k \in {2, 3}, first \in {101, 201}}

FrameCounts == {2}

\* the channel names that have a channel in this player
ChannelNames(pl) ==
    IF Len(pl.channels) = 1 THEN {"mono", "left"} ELSE {"mono", "left", "right"}

PlayerInit == \E patterns \in PlayerPatterns : player = PlayerNew(patterns)

PlayerIdle == player = PlayerNew(<<PatternNew(<<>>)>>)

SetOverride ==
    /\ player.calls < MaxPlayerCalls
    /\ \E channel_name \in ChannelNames(player), waves \in OverrideWaves,
          replace \in BOOLEAN :
          player' = [set_override(player, channel_name, waves, replace) EXCEPT
                       !.calls = @ + 1,
                       !.ev = [kind |-> "set_override",
                               index |-> ChannelIndex(channel_name),
                               waves |-> waves, replace |-> replace]]
    /\ UNCHANGED exceptPlayer

GetSamples ==
    /\ player.calls < MaxPlayerCalls
    /\ \E frame_count \in FrameCounts :
          player' = [get_samples(player, frame_count) EXCEPT
                       !.calls = @ + 1,
                       !.ev = [kind |-> "get_samples", frame_count |-> frame_count]]
    /\ UNCHANGED exceptPlayer

-----------------------------------------------------------------------------
(* Device discovery: ButtplugClient (pyeep/outputs/buttplug.py), Bluetooth *)
(* (stim/bluetooth.py) and HappyLights (stim/happylights.py).  A name is   *)
(* held as the sequence of the pieces its format string joins.             *)

\* str() of a small index
Digit(n) == CASE n = 0 -> "0" [] n = 1 -> "1" [] n = 2 -> "2" [] OTHER -> "9"

\* the characters of \w that occur in the names below
WordChars == {"b", "t", "_", "m", "0", "1", "2", "5", "6"}

\* re_mangle.sub("_", s): every run of characters outside \w becomes one "_"
RECURSIVE Mangle(_)
Mangle(s) ==
    IF s = <<>> THEN <<>>
    ELSE IF Head(s) \in WordChars THEN <<Head(s)>> \o Mangle(Tail(s))
    ELSE IF Len(s) > 1 /\ s[2] \notin WordChars THEN Mangle(Tail(s))
    ELSE <<"_">> \o Mangle(Tail(s))

\* the default name of a BluetoothComponent
BluetoothName(device) ==
    Mangle(<<"b", "t", "_">> \o device.name \o <<"_">> \o device.address)

\* f"bp_dev{dev.index}_act{a.index}"
ActuatorName(dev_index, a_index) ==
    <<"bp_dev", Digit(dev_index), "_act", Digit(a_index)>>

\* the application before any device is discovered: names holds the name
\* of every add_component call so far, in order
DiscoveryNew ==
    [ names        |-> <<>>,
      devices_seen |-> {},
      components   |-> {},
      lights       |-> FALSE,
      ev           |-> "none" ]

\* ButtplugClient._new_device: one component for each scalar actuator,
\* then one for each linear actuator; the actuators of each kind are
\* indexed from 0
new_device(d, dev) ==
    [d EXCEPT
       !.names = @ \o [k \in 1..dev.actuators |-> ActuatorName(dev.index, k - 1)]
                   \o [k \in 1..dev.linear_actuators |->
                         ActuatorName(dev.index, k - 1)],
       !.devices_seen = @ \cup {dev.index}]

\* the addresses Bluetooth is configured with (self.devices)
ConfiguredAddresses == {<<"0", "1", ":", "0", "5">>, <<"0", "1", ":", "0", "6">>}

\* Bluetooth._scanner_event
scanner_event(d, device) ==
    IF device.address \notin ConfiguredAddresses THEN d
    ELSE IF device.address \in d.components THEN d
    ELSE [d EXCEPT !.names = Append(@, BluetoothName(device)),
                   !.components = @ \cup {device.address}]

\* HappyLights.lights_task up to its loop
lights_task(d) ==
    [d EXCEPT !.names = @ \o << <<"happylights-red">>, <<"happylights-green">>,
                                <<"happylights-blue">> >>,
              !.lights = TRUE]

-----------------------------------------------------------------------------
(* Discovery of devices that appear in any order *)

\* the devices of the Buttplug server: an index and the numbers of scalar
\* and of linear actuators
MaxActuators == 2

BpDevices ==
    [index : {0, 1}, actuators : 0..MaxActuators, linear_actuators : 0..MaxActuators]

\* the devices the scanner reports
BtDevices ==
    [name : {<<"m">>, <<"m", "-", " ", "2">>},
     address : ConfiguredAddresses \cup {<<"0", "1", ":", "0", "2">>}]

DiscInit == disc = DiscoveryNew

DiscIdle == disc = DiscoveryNew

\* the loop of ButtplugClient.run meets a device it has not seen
NewDevice ==
    /\ \E dev \in BpDevices :
          /\ dev.index \notin disc.devices_seen
          /\ disc' = [new_device(disc, dev) EXCEPT !.ev = "new_device"]
    /\ UNCHANGED exceptDisc

ScannerEvent ==
    /\ \E device \in BtDevices :
          disc' = [scanner_event(disc, device) EXCEPT !.ev = "scanner_event"]
    /\ UNCHANGED exceptDisc

LightsTask ==
    /\ ~disc.lights
    /\ disc' = [lights_task(disc) EXCEPT !.ev = "lights_task"]
    /\ UNCHANGED exceptDisc

-----------------------------------------------------------------------------
(* The channel power encoding of Coyote (pyeep/outputs/coyote.py) *)

\* bytes((...)) of three integers: a ValueError unless each is in 0..255
Bytes3(b0, b1, b2) ==
    IF \A b \in {b0, b1, b2} : b \in 0..255 THEN <<b0, b1, b2>> ELSE "ValueError"

\* Coyote._encode_channel_power: << 10 is a product by 2^10, >> n the
\* quotient by 2^n and & 0xff the remainder modulo 2^8
_encode_channel_power(power_a, power_b) ==
    LET power_uint == (power_b * 1024) + power_a
    IN  Bytes3(power_uint \div 65536, (power_uint \div 256) % 256, power_uint % 256)

\* Coyote._parse_channel_power: & 0x3ff is the remainder modulo 2^10
_parse_channel_power(value) ==
    LET power_uint == (value[1] * 65536) + (value[2] * 256) + value[3]
        power_a    == power_uint % 1024
        power_b    == (power_uint \div 1024) % 1024
    IN  <<power_a, power_b>>

-----------------------------------------------------------------------------
(* Channel powers of the documented range encoded and parsed back *)

\* the documented range of a channel's power is 0..PowerRangeMax
PowerRangeMax == 2047

Powers == {0, 1, 7, 700, 1023, 1024, 1500, PowerRangeMax}

CoyNew(power_a, power_b) ==
    [stage |-> "input", power_a |-> power_a, power_b |-> power_b,
     value |-> <<>>, parsed |-> <<>>]

CoyInit == \E power_a \in Powers, power_b \in Powers : coy = CoyNew(power_a, power_b)

CoyIdle == coy = CoyNew(0, 0)

CoyEncode ==
    /\ coy.stage = "input"
    /\ coy' = [coy EXCEPT !.stage = "encoded",
                          !.value = _encode_channel_power(coy.power_a, coy.power_b)]
    /\ UNCHANGED exceptCoy

CoyParse ==
    /\ coy.stage = "encoded"
    /\ coy.value # "ValueError"
    /\ coy' = [coy EXCEPT !.stage = "parsed",
                          !.parsed = _parse_channel_power(coy.value)]
    /\ UNCHANGED exceptCoy

-----------------------------------------------------------------------------
(* Head position from the accelerometer: ModeHeadPosition.on_acc and       *)
(* HeadPosition.process_samples (stim/muse2.py).  Accelerations are whole  *)
(* numbers of a unit, their means rationals, angles whole degrees.         *)

\* math.atan2(y, x) / math.pi * 180 for rationals y and x, where the angle
\* is a multiple of 45 degrees; other directions are not represented
Atan2Deg(y, x) ==
    LET ys == y.n * x.d
        xs == x.n * y.d
    IN  CASE ys = 0 /\ xs >= 0 -> 0
          [] ys = 0 /\ xs < 0 -> 180
          [] xs = 0 /\ ys > 0 -> 90
          [] xs = 0 /\ ys < 0 -> -90
          [] ys = xs /\ ys > 0 -> 45
          [] ys = -xs /\ ys > 0 -> 135
          [] ys = xs /\ ys < 0 -> -135
          [] ys = -xs /\ ys < 0 -> -45

\* math.sqrt(y*y + z*z) for rationals whose sum of squares is a square
SqrtSquares(y, z) ==
    LET a == Abs(y.n * z.d)
        b == Abs(z.n * y.d)
    IN  Rat(CHOOSE r \in 0..(a + b) : r * r = (a * a) + (b * b), y.d * z.d)

HeadAnglesSwapped(x, y, z) ==
    [roll  |-> Atan2Deg(z, y),
     pitch |-> Atan2Deg(Rat(-x.n, x.d), SqrtSquares(y, z))]

\* roll and pitch as both handlers compute them from the means x, y, z
HeadAngles(x, y, z) ==
    [roll  |-> Atan2Deg(y, z),
     pitch |-> Atan2Deg(Rat(-x.n, x.d), SqrtSquares(y, z))]

\* the column of axis k of a list of samples
Column(samples, k) == [i \in DOMAIN samples |-> samples[i][k]]

\* ModeHeadPosition.on_acc: data has one row per axis; the HeadMoved sent
on_acc(data) ==
    HeadAngles(Mean(data[1]), Mean(data[2]), Mean(data[3]))

\* HeadPosition.process_samples: samples has one row per sample
process_samples(samples) ==
    HeadAngles(Mean(Column(samples, 1)), Mean(Column(samples, 2)),
               Mean(Column(samples, 3)))

-----------------------------------------------------------------------------
(* Chunks of accelerometer samples given to the two handlers *)

\* the magnitudes of gravity tried, in units of the sensor
Gravities == {1, 98}

\* accelerations of the size of gravity along the axes
AccVectors ==
    UNION {{<<x, y, z>> : x \in {-g, 0, g}, y \in {-g, 0, g}, z \in {-g, 0, g}} :
             g \in Gravities}

\* y and z are not both non-zero, which keeps every angle a multiple of 45
\* degrees

ExactVectors == {v \in AccVectors : v[2] = 0 \/ v[3] = 0}

\* chunks of one or two samples whose mean is v
AccChunks(v) ==
    {<<v>>, <<v, v>>, <<<<2 * v[1], 2 * v[2], 2 * v[3]>>, <<0, 0, 0>>>>}

HeadPosNew(samples) == [stage |-> "input", samples |-> samples, msg |-> <<>>]

HeadPosInit ==
    \E v \in ExactVectors : \E samples \in AccChunks(v) : hp = HeadPosNew(samples)

HeadPosIdle == hp = HeadPosNew(<<>>)

\* ModeHeadPosition.on_acc is given the chunk, one row per axis
HpOnAcc ==
    /\ hp.stage = "input"
    /\ hp' = [hp EXCEPT !.stage = "on_acc",
                        !.msg = on_acc(<<Column(hp.samples, 1), Column(hp.samples, 2),
                                         Column(hp.samples, 3)>>)]
    /\ UNCHANGED exceptHp

\* an active HeadPosition receives the chunk in an LSLSamples message
HpProcessSamples ==
    /\ hp.stage = "input"
    /\ hp' = [hp EXCEPT !.stage = "process_samples",
                        !.msg = process_samples(hp.samples)]
    /\ UNCHANGED exceptHp

-----------------------------------------------------------------------------
(* ButtplugClient.run (pyeep/outputs/buttplug.py, stim/buttplug.py) *)

\* pc            where run() is: "connect" (in client.connect()), "wait" (in
\*               next_message(timeout=0.2)), "finally", "await_scan" (in
\*               `await self.scan_task`), "done"
\* scan_task     the attribute: None or the task
\* scan          the _scan() task: "none", "start_scanning", "sleep",
\*               "stop_scanning" (the await it is in), "finished",
\*               "cancelling" (cancel() requested), "cancelled"
\* devices       client.devices, devices_seen the attribute
\* connected     client.connect() returned, disconnected client.disconnect()
\*               was called
\* error         the exception run() ends with, "none" when it returns
ButtplugClientNew ==
    [pc |-> "connect", mailbox |-> <<>>, taken |-> 0, shutdown_taken |-> FALSE,
     scan_task |-> None, scan |-> "none", devices |-> {}, devices_seen |-> {},
     connected |-> FALSE, disconnected |-> FALSE, error |-> "none"]

DeviceScanRequest == Msg("DeviceScanRequest")

\* run: client.connect() returned; components are made for the devices
\* already known
BpConnected(b) ==
    [b EXCEPT !.pc = "wait", !.connected = TRUE, !.devices_seen = b.devices]

\* run: client.connect() raised, before the try statement
BpConnectFailed(b) == [b EXCEPT !.pc = "done", !.error = "ConnectorError"]

\* ButtplugClient.scan
BpScan(b) ==
    IF b.scan_task = None
    THEN [b EXCEPT !.scan_task = Some("_scan"), !.scan = "start_scanning"]
    ELSE b

\* run: one round of the loop with what next_message returned, None after
\* the timeout
BpOnMessage(b, msg) ==
    IF msg # None /\ The(msg).kind = "Shutdown"
    THEN [b EXCEPT !.pc = "finally"]
    ELSE [(IF msg # None /\ The(msg).kind = "DeviceScanRequest" THEN BpScan(b) ELSE b)
             EXCEPT !.devices_seen = @ \cup b.devices]

\* _scan: the await the task is in returns
BpScanAdvance(b) ==
    CASE b.scan = "start_scanning" -> [b EXCEPT !.scan = "sleep"]
      [] b.scan = "sleep" -> [b EXCEPT !.scan = "stop_scanning"]
      [] b.scan = "stop_scanning" -> [b EXCEPT !.scan = "finished", !.scan_task = None]

\* run: the finally clause up to its first await
BpFinally(b) ==
    IF b.scan_task # None
    THEN [b EXCEPT !.pc = "await_scan", !.scan = "cancelling"]
    ELSE [b EXCEPT !.pc = "done", !.disconnected = TRUE]

\* run: `await self.scan_task` ends once the task has ended: it raises
\* CancelledError for a cancelled task, else the clause goes on to
\* client.disconnect()
BpScanAwaited(b) ==
    IF b.scan = "cancelled"
    THEN [b EXCEPT !.pc = "done", !.error = "CancelledError"]
    ELSE [b EXCEPT !.pc = "done", !.scan_task = None, !.disconnected = TRUE]

-----------------------------------------------------------------------------
(* A ButtplugClient with messages arriving and a scan going on *)

\* at most this many messages are sent to the client
MaxBpMsgs == 3

BpMessages == {Shutdown, DeviceScanRequest}

\* the indexes of the devices the server can report
BpIndexes == {0, 1}

BpIdle == bp = ButtplugClientNew

BpReceive ==
    /\ Len(bp.mailbox) + bp.taken < MaxBpMsgs
    /\ \E msg \in BpMessages : bp' = Receive(bp, msg)
    /\ UNCHANGED exceptBp

\* the server reports one more device
BpDeviceAdded ==
    /\ \E index \in BpIndexes \ bp.devices :
          bp' = [bp EXCEPT !.devices = @ \cup {index}]
    /\ UNCHANGED exceptBp

BpConnectSucceeds ==
    /\ bp.pc = "connect"
    /\ bp' = BpConnected(bp)
    /\ UNCHANGED exceptBp

BpConnectFails ==
    /\ bp.pc = "connect"
    /\ bp' = BpConnectFailed(bp)
    /\ UNCHANGED exceptBp

BpNextMessage ==
    /\ bp.pc = "wait"
    /\ bp.mailbox # <<>>
    /\ bp' = BpOnMessage(Taken(bp), Some(Head(bp.mailbox)))
    /\ UNCHANGED exceptBp

\* next_message(timeout=0.2) returns None
BpTimeout ==
    /\ bp.pc = "wait"
    /\ bp.mailbox = <<>>
    /\ bp.devices # bp.devices_seen
    /\ bp' = BpOnMessage(bp, None)
    /\ UNCHANGED exceptBp

BpScanStep ==
    /\ bp.scan \in {"start_scanning", "sleep", "stop_scanning"}
    /\ bp' = BpScanAdvance(bp)
    /\ UNCHANGED exceptBp

BpFinallyStep ==
    /\ bp.pc = "finally"
    /\ bp' = BpFinally(bp)
    /\ UNCHANGED exceptBp

\* the cancelled _scan() task gets CancelledError at its await and ends
BpScanCancelled ==
    /\ bp.scan = "cancelling"
    /\ bp' = [bp EXCEPT !.scan = "cancelled"]
    /\ UNCHANGED exceptBp

BpAwaitScan ==
    /\ bp.pc = "await_scan"
    /\ bp.scan \in {"finished", "cancelled"}
    /\ bp' = BpScanAwaited(bp)
    /\ UNCHANGED exceptBp

-----------------------------------------------------------------------------
(* class ColorComponent and class HappyLights (stim/happylights.py).       *)
(* The power of a SetPower is held in halves: 2 is the power 1.0.          *)

Colors == {"red", "green", "blue"}

\* HappyLights.cmd_color
cmd_color(r, g, b) == <<86, r, g, b, 0, 240, 170>>

\* HappyLights once lights_task has created the three components.
\* value     ColorComponent.value of each component
\* mailbox   the mailbox of each component, running whether its run() has
\*           not ended
\* event     update_event
\* task      where lights_task is: "wait" (at update_event.wait()) or
\*           "write" (in write_gatt_char), cmd the command it is writing
\* written   the last command written to the device, None before the first
\* updates   the calls of HappyLights.update so far, received the messages
\*           given to the components so far
HappyLightsNew ==
    [ value    |-> [c \in Colors |-> 0],
      mailbox  |-> [c \in Colors |-> <<>>],
      running  |-> [c \in Colors |-> TRUE],
      event    |-> FALSE,
      task     |-> "wait",
      cmd      |-> <<>>,
      written  |-> None,
      updates  |-> 0,
      received |-> 0 ]

ColorSetPower(output, power) == [kind |-> "SetPower", output |-> output, power |-> power]

\* ColorComponent.run: one message of the loop of component c
ColorOnMessage(h, c, msg) ==
    CASE msg.kind = "Shutdown" -> [h EXCEPT !.running[c] = FALSE]
      [] msg.kind = "SetPower" /\ msg.output = c ->
            [h EXCEPT !.value[c] = Round(msg.power * 255),
                      !.event = TRUE,
                      !.updates = @ + 1]
      [] OTHER -> h

\* lights_task from the return of update_event.wait() to its await of
\* write_gatt_char
LightsWake(h) ==
    [h EXCEPT !.event = FALSE,
              !.cmd = cmd_color(h.value["red"], h.value["green"], h.value["blue"]),
              !.task = "write"]

LightsWrittenClears(h) ==
    [h EXCEPT !.written = Some(h.cmd), !.task = "wait", !.event = FALSE]

\* lights_task: write_gatt_char returns and the loop goes round
LightsWritten(h) == [h EXCEPT !.written = Some(h.cmd), !.task = "wait"]

-----------------------------------------------------------------------------
(* SetPower messages to the colour components in any interleaving with the *)
(* lights task                                                              *)

\* at most this many messages are given to the components
MaxLightMsgs == 3

\* the powers 0.5 and 1.0, and a message for another output
LightMessages(c) ==
    {ColorSetPower(c, 1), ColorSetPower(c, 2), ColorSetPower("other", 2), Shutdown}

LightsIdle == hl = HappyLightsNew

LightsReceive ==
    /\ hl.received < MaxLightMsgs
    /\ \E c \in Colors : \E msg \in LightMessages(c) :
          hl' = [hl EXCEPT !.mailbox[c] = Append(@, msg), !.received = @ + 1]
    /\ UNCHANGED exceptLights

ColorRun(c) ==
    /\ hl.running[c]
    /\ hl.mailbox[c] # <<>>
    /\ hl' = ColorOnMessage([hl EXCEPT !.mailbox[c] = Tail(@)], c, Head(hl.mailbox[c]))
    /\ UNCHANGED exceptLights

ColorRuns == \E c \in Colors : ColorRun(c)

LightsTaskWake ==
    /\ hl.task = "wait"
    /\ hl.event
    /\ hl' = LightsWake(hl)
    /\ UNCHANGED exceptLights

LightsTaskWritten ==
    /\ hl.task = "write"
    /\ hl' = LightsWritten(hl)
    /\ UNCHANGED exceptLights

-----------------------------------------------------------------------------
(* Specifications: one per part of the program, the other parts at rest *)

NextSlope == Extend

InitSlope ==
    /\ SlopeInit
    /\ SlopesIdle
    /\ GyroIdle
    /\ HeartIdle
    /\ CompIdle
    /\ BusIdle
    /\ HeadIdle
    /\ WindowIdle
    /\ OcIdle
    /\ PatternIdle
    /\ PlayerIdle
    /\ DiscIdle
    /\ CoyIdle
    /\ HeadPosIdle
    /\ BpIdle
    /\ LightsIdle

SpecSlope == InitSlope /\ [][NextSlope]_vars

NextSlopes == CheckAbove \/ CheckBelow

InitSlopes ==
    /\ SlopesInit
    /\ SlopeIdle
    /\ GyroIdle
    /\ HeartIdle
    /\ CompIdle
    /\ BusIdle
    /\ HeadIdle
    /\ WindowIdle
    /\ OcIdle
    /\ PatternIdle
    /\ PlayerIdle
    /\ DiscIdle
    /\ CoyIdle
    /\ HeadPosIdle
    /\ BpIdle
    /\ LightsIdle

SpecSlopes == InitSlopes /\ [][NextSlopes]_vars

NextGyro == Add \/ Restart

InitGyro ==
    /\ GyroInit
    /\ SlopeIdle
    /\ SlopesIdle
    /\ HeartIdle
    /\ CompIdle
    /\ BusIdle
    /\ HeadIdle
    /\ WindowIdle
    /\ OcIdle
    /\ PatternIdle
    /\ PlayerIdle
    /\ DiscIdle
    /\ CoyIdle
    /\ HeadPosIdle
    /\ BpIdle
    /\ LightsIdle

SpecGyro == InitGyro /\ [][NextGyro]_vars

NextHead == HeadSetActive \/ HeadChunk

InitHead ==
    /\ HeadInit
    /\ SlopeIdle
    /\ SlopesIdle
    /\ GyroIdle
    /\ HeartIdle
    /\ CompIdle
    /\ BusIdle
    /\ WindowIdle
    /\ OcIdle
    /\ PatternIdle
    /\ PlayerIdle
    /\ DiscIdle
    /\ CoyIdle
    /\ HeadPosIdle
    /\ BpIdle
    /\ LightsIdle

SpecHead == InitHead /\ [][NextHead]_vars

NextOutput ==
    \/ OcReceive \/ OcToggleActive \/ OcTogglePause \/ OcToggleManual
    \/ OcScale \/ OcPowerMin \/ OcPowerMax \/ OcFrame

InitOutput ==
    /\ OcInit
    /\ SlopeIdle
    /\ SlopesIdle
    /\ GyroIdle
    /\ HeartIdle
    /\ CompIdle
    /\ BusIdle
    /\ HeadIdle
    /\ WindowIdle
    /\ PatternIdle
    /\ PlayerIdle
    /\ DiscIdle
    /\ CoyIdle
    /\ HeadPosIdle
    /\ BpIdle
    /\ LightsIdle

SpecOutput == InitOutput /\ [][NextOutput]_vars

NextPattern == PatternRead

InitPattern ==
    /\ PatternInit
    /\ SlopeIdle
    /\ SlopesIdle
    /\ GyroIdle
    /\ HeartIdle
    /\ CompIdle
    /\ BusIdle
    /\ HeadIdle
    /\ WindowIdle
    /\ OcIdle
    /\ PlayerIdle
    /\ DiscIdle
    /\ CoyIdle
    /\ HeadPosIdle
    /\ BpIdle
    /\ LightsIdle

SpecPattern == InitPattern /\ [][NextPattern]_vars

NextPlayer == SetOverride \/ GetSamples

InitPlayer ==
    /\ PlayerInit
    /\ SlopeIdle
    /\ SlopesIdle
    /\ GyroIdle
    /\ HeartIdle
    /\ CompIdle
    /\ BusIdle
    /\ HeadIdle
    /\ WindowIdle
    /\ OcIdle
    /\ PatternIdle
    /\ DiscIdle
    /\ CoyIdle
    /\ HeadPosIdle
    /\ BpIdle
    /\ LightsIdle

SpecPlayer == InitPlayer /\ [][NextPlayer]_vars

NextDiscovery == NewDevice \/ ScannerEvent \/ LightsTask

InitDiscovery ==
    /\ DiscInit
    /\ SlopeIdle
    /\ SlopesIdle
    /\ GyroIdle
    /\ HeartIdle
    /\ CompIdle
    /\ BusIdle
    /\ HeadIdle
    /\ WindowIdle
    /\ OcIdle
    /\ PatternIdle
    /\ PlayerIdle
    /\ CoyIdle
    /\ HeadPosIdle
    /\ BpIdle
    /\ LightsIdle

SpecDiscovery == InitDiscovery /\ [][NextDiscovery]_vars

NextCoyote == CoyEncode \/ CoyParse

InitCoyote ==
    /\ CoyInit
    /\ SlopeIdle
    /\ SlopesIdle
    /\ GyroIdle
    /\ HeartIdle
    /\ CompIdle
    /\ BusIdle
    /\ HeadIdle
    /\ WindowIdle
    /\ OcIdle
    /\ PatternIdle
    /\ PlayerIdle
    /\ DiscIdle
    /\ HeadPosIdle
    /\ BpIdle
    /\ LightsIdle

SpecCoyote == InitCoyote /\ [][NextCoyote]_vars

NextHeadPos == HpOnAcc \/ HpProcessSamples

InitHeadPos ==
    /\ HeadPosInit
    /\ SlopeIdle
    /\ SlopesIdle
    /\ GyroIdle
    /\ HeartIdle
    /\ CompIdle
    /\ BusIdle
    /\ HeadIdle
    /\ WindowIdle
    /\ OcIdle
    /\ PatternIdle
    /\ PlayerIdle
    /\ DiscIdle
    /\ CoyIdle
    /\ BpIdle
    /\ LightsIdle

SpecHeadPos == InitHeadPos /\ [][NextHeadPos]_vars

NextButtplug ==
    \/ BpReceive
    \/ BpDeviceAdded
    \/ BpConnectSucceeds
    \/ BpConnectFails
    \/ BpNextMessage
    \/ BpTimeout
    \/ BpScanStep
    \/ BpFinallyStep
    \/ BpScanCancelled
    \/ BpAwaitScan

InitButtplug ==
    /\ BpIdle
    /\ SlopeIdle
    /\ SlopesIdle
    /\ GyroIdle
    /\ HeartIdle
    /\ CompIdle
    /\ BusIdle
    /\ HeadIdle
    /\ WindowIdle
    /\ OcIdle
    /\ PatternIdle
    /\ PlayerIdle
    /\ DiscIdle
    /\ CoyIdle
    /\ HeadPosIdle
    /\ LightsIdle

SpecButtplug == InitButtplug /\ [][NextButtplug]_vars

NextLights == LightsReceive \/ ColorRuns \/ LightsTaskWake \/ LightsTaskWritten

InitLights ==
    /\ LightsIdle
    /\ SlopeIdle
    /\ SlopesIdle
    /\ GyroIdle
    /\ HeartIdle
    /\ CompIdle
    /\ BusIdle
    /\ HeadIdle
    /\ WindowIdle
    /\ OcIdle
    /\ PatternIdle
    /\ PlayerIdle
    /\ DiscIdle
    /\ CoyIdle
    /\ HeadPosIdle
    /\ BpIdle

SpecLights == InitLights /\ [][NextLights]_vars

\* The event loop runs every task that can run and every write to the
\* device ends; that further messages arrive is not forced
FairLights ==
    /\ SpecLights
    /\ \A c \in Colors : WF_vars(ColorRun(c))
    /\ WF_vars(LightsTaskWake)
    /\ WF_vars(LightsTaskWritten)

NextHistory == SampleLong

InitHistory ==
    /\ HeartInit
    /\ SlopeIdle
    /\ SlopesIdle
    /\ GyroIdle
    /\ CompIdle
    /\ BusIdle
    /\ HeadIdle
    /\ WindowIdle
    /\ OcIdle
    /\ PatternIdle
    /\ PlayerIdle
    /\ DiscIdle
    /\ CoyIdle
    /\ HeadPosIdle
    /\ BpIdle
    /\ LightsIdle

SpecHistory == InitHistory /\ [][NextHistory]_vars

NextWindow == WindowCall

InitWindow ==
    /\ WindowInit
    /\ SlopeIdle
    /\ SlopesIdle
    /\ GyroIdle
    /\ HeartIdle
    /\ CompIdle
    /\ BusIdle
    /\ HeadIdle
    /\ OcIdle
    /\ PatternIdle
    /\ PlayerIdle
    /\ DiscIdle
    /\ CoyIdle
    /\ HeadPosIdle
    /\ BpIdle
    /\ LightsIdle

SpecWindow == InitWindow /\ [][NextWindow]_vars

NextHeart == Sample

InitHeart ==
    /\ HeartInit
    /\ SlopeIdle
    /\ SlopesIdle
    /\ GyroIdle
    /\ CompIdle
    /\ BusIdle
    /\ HeadIdle
    /\ WindowIdle
    /\ OcIdle
    /\ PatternIdle
    /\ PlayerIdle
    /\ DiscIdle
    /\ CoyIdle
    /\ HeadPosIdle
    /\ BpIdle
    /\ LightsIdle

SpecHeart == InitHeart /\ [][NextHeart]_vars

NextComponents ==
    \/ BtReceive \/ BtRunStart \/ BtConnectFails \/ BtConnectSucceeds
    \/ BtSleepDone \/ CoyoteTimer \/ BtNextMessage \/ BtRunEndStep
    \/ BtConnectCancelled \/ BtRunEndAwait
    \/ NullReceive \/ NullNextMessage
    \/ CncReceive \/ CncListen \/ CncWrite \/ CncConnect \/ CncPollMessage
    \/ CncPollTimeout \/ CncTaskMsg \/ CncTaskLine \/ CncWait
    \/ TestReceive \/ TestSpawn \/ TestWrite \/ TestClose \/ TestReadline
    \/ TestReaderCancelled \/ TestNextMessage \/ TestFinallyStep \/ TestAwait
    \/ HrWrite \/ HrClose \/ HrShutdown \/ HrReadline

InitComponents ==
    /\ CompInit
    /\ SlopeIdle
    /\ SlopesIdle
    /\ GyroIdle
    /\ HeartIdle
    /\ BusIdle
    /\ HeadIdle
    /\ WindowIdle
    /\ OcIdle
    /\ PatternIdle
    /\ PlayerIdle
    /\ DiscIdle
    /\ CoyIdle
    /\ HeadPosIdle
    /\ BpIdle
    /\ LightsIdle

SpecComponents == InitComponents /\ [][NextComponents]_vars

\* The event loop runs every task that can run, every sleep and timeout
\* ends; what the hub, the peers and the device do is not forced
FairComponents ==
    /\ SpecComponents
    /\ WF_vars(BtRunStart) /\ WF_vars(BtConnectFails \/ BtConnectSucceeds)
    /\ WF_vars(BtSleepDone) /\ WF_vars(CoyoteTimer) /\ WF_vars(BtNextMessage)
    /\ WF_vars(BtRunEndStep) /\ WF_vars(BtConnectCancelled) /\ WF_vars(BtRunEndAwait)
    /\ WF_vars(NullNextMessage)
    /\ WF_vars(CncConnect) /\ WF_vars(CncPollMessage) /\ WF_vars(CncPollTimeout)
    /\ WF_vars(CncTaskMsg) /\ WF_vars(CncTaskLine) /\ WF_vars(CncWait)
    /\ WF_vars(TestSpawn) /\ WF_vars(TestReadline) /\ WF_vars(TestReaderCancelled)
    /\ WF_vars(TestNextMessage) /\ WF_vars(TestFinallyStep) /\ WF_vars(TestAwait)
    /\ WF_vars(HrReadline)

NextBus == Send \/ Transfer \/ Dispatch \/ Take

InitBus ==
    /\ BusIdle
    /\ CompIdle
    /\ SlopeIdle
    /\ SlopesIdle
    /\ GyroIdle
    /\ HeartIdle
    /\ HeadIdle
    /\ WindowIdle
    /\ OcIdle
    /\ PatternIdle
    /\ PlayerIdle
    /\ DiscIdle
    /\ CoyIdle
    /\ HeadPosIdle
    /\ BpIdle
    /\ LightsIdle

SpecBus == InitBus /\ [][NextBus]_vars

-----------------------------------------------------------------------------
(* Properties of Slope and Slopes *)

\* C1: a check() call appends a Slope to slopes exactly when it is made with
\* above_threshold=False while a current Slope exists whose duration is
\* greater than min_slope_duration and whose height is greater than
\* min_slope_height; the Slope appended is the current one; any other call
\* with above_threshold=False leaves slopes as it was; after every call with
\* above_threshold=False current is None.  With (3.0, 6) a rise from 60 to 70
\* over 2 s is not committed and the same rise over 4 s is.
C1_CommitIff ==
    [][ call'.n # call.n =>
          LET cur == The(acc.current)
              qualifies ==
                  /\ acc.current # None
                  /\ Last(cur.samples).time - cur.samples[1].time > acc.min_slope_duration
                  /\ cur.max_rate - cur.min_rate > acc.min_slope_height
              rise == /\ acc.current # None
                      /\ acc.min_slope_duration = 3 /\ acc.min_slope_height = 6
                      /\ cur.samples[1].rate = 60 /\ Last(cur.samples).rate = 70
                      /\ ~call'.above_threshold
          IN  /\ (acc'.slopes # acc.slopes) <=> (~call'.above_threshold /\ qualifies)
              /\ (acc'.slopes # acc.slopes) => acc'.slopes = Append(acc.slopes, cur)
              /\ ~call'.above_threshold => acc'.current = None
              /\ (rise /\ Duration(cur) = 2) => acc'.slopes = acc.slopes
              /\ (rise /\ Duration(cur) = 4) => acc'.slopes = Append(acc.slopes, cur)
      ]_vars

\* the (3.0, 6) accumulator has just committed a rise from 60 to 70 over 4 s
C1_Witness ==
    /\ acc.min_slope_duration = 3 /\ acc.min_slope_height = 6
    /\ ~call.above_threshold /\ call.ret = 3
    /\ acc.current = None
    /\ Len(acc.slopes) = 1
    /\ Duration(acc.slopes[1]) = 4
    /\ acc.slopes[1].min_rate = 60 /\ acc.slopes[1].max_rate = 70

StrictlyIncreasing(samples) ==
    \A i \in 1..(Len(samples) - 1) : samples[i].time < samples[i + 1].time

\* C10 as stated: whatever list extend() is given, a Slope whose samples are
\* ordered by strictly increasing time keeps them so.
C10_AnyListKeepsOrder ==
    [][ (ext'.n # ext.n /\ StrictlyIncreasing(one_slope.samples))
            => StrictlyIncreasing(one_slope'.samples) ]_vars

\* C10, amended: extend() appends, in the order of the list, exactly the
\* samples whose time is greater than that of the last sample stored before
\* the call; when the stored samples and the list are each ordered by
\* strictly increasing time, the stored samples stay so.
C10_OrderedListKeepsOrder ==
    [][ ext'.n # ext.n =>
          /\ one_slope'.samples = one_slope.samples \o
                SelectSeq(ext'.samples,
                          LAMBDA x : x.time > Last(one_slope.samples).time)
          /\ (StrictlyIncreasing(one_slope.samples) /\ StrictlyIncreasing(ext'.samples))
                => StrictlyIncreasing(one_slope'.samples) ]_vars

\* an ordered list of two samples has been given to extend(), which dropped
\* the first and appended the second
C10_Witness ==
    /\ ext.n >= 1
    /\ Len(ext.samples) = 2
    /\ StrictlyIncreasing(ext.samples)
    /\ StrictlyIncreasing(one_slope.samples)
    /\ Len(one_slope.samples) >= 2
    /\ Last(one_slope.samples) = ext.samples[2]
    /\ one_slope.samples[Len(one_slope.samples) - 1].time = ext.samples[1].time
    /\ one_slope.samples[Len(one_slope.samples) - 1].rate # ext.samples[1].rate

\* min_rate and max_rate are the least and the greatest rate held in samples
ExtremaOfSamples(s) ==
    /\ \E i \in DOMAIN s.samples : s.samples[i].rate = s.min_rate
    /\ \E i \in DOMAIN s.samples : s.samples[i].rate = s.max_rate
    /\ \A i \in DOMAIN s.samples :
          s.min_rate <= s.samples[i].rate /\ s.samples[i].rate <= s.max_rate

\* C11: after construction and after every extend() call, min_rate is the
\* least and max_rate the greatest rate among the samples the Slope holds;
\* no extend() call raises min_rate or lowers max_rate.
C11_ExtremaTracked ==
    /\ ExtremaOfSamples(one_slope)
    /\ [][ /\ ExtremaOfSamples(one_slope')
           /\ one_slope'.min_rate <= one_slope.min_rate
           /\ one_slope'.max_rate >= one_slope.max_rate ]_vars

\* a Slope of two samples of rate 70 was extended by a sample of rate 60
C11_Witness ==
    /\ ext.n >= 1
    /\ Len(one_slope.samples) = 3
    /\ one_slope.samples[1].rate = 70
    /\ one_slope.samples[2].rate = 70
    /\ one_slope.samples[3].rate = 60
    /\ one_slope.min_rate = 60
    /\ one_slope.max_rate = 70

-----------------------------------------------------------------------------
(* Properties of the Excitement detector *)

\* C2: once check_history has analysed a sample (the history holds at least
\* two), interesting is true exactly when the window's slope is climbing, a
\* fall or a coast has been committed, the rate has risen since the previous
\* sample, the rate has reached the recovery threshold and no fall is in
\* progress.  In particular, with a committed fall of min_rate 55, no
\* committed coast, a climbing slope and no fall in progress, a sample of
\* rate 56 that follows a lower one makes interesting true.
C2_InterestingIff ==
    Len(exc.history) >= 2 =>
        LET w      == exc.window
            cur    == Last(exc.history).rate
            prev   == exc.history[Len(exc.history) - 1].rate
            falls  == w.falls.slopes
            coasts == w.coasts.slopes
            \* twice the recovery threshold
            thr2   == IF falls = <<>>
                      THEN Last(coasts).min_rate + Last(coasts).max_rate + 2
                      ELSE IF coasts = <<>>
                      THEN 2 * Last(falls).min_rate
                      ELSE IF Last(Last(coasts).samples).time < Last(Last(falls).samples).time
                      THEN 2 * Last(falls).min_rate
                      ELSE Last(coasts).min_rate + Last(coasts).max_rate
        IN  /\ exc.interesting <=>
                 /\ w.slope_climbing
                 /\ (falls # <<>> \/ coasts # <<>>)
                 /\ cur > prev
                 /\ 2 * cur >= thr2
                 /\ w.falls.current = None
            /\ ( /\ falls # <<>> /\ coasts = <<>>
                 /\ Last(falls).min_rate = 55
                 /\ w.slope_climbing /\ w.falls.current = None
                 /\ cur = 56 /\ prev < 56 ) => exc.interesting

\* the scenario: a fall of min_rate 55 is committed, no coast is, and the
\* sample of rate 56 is the one at which interesting has become true
C2_Witness ==
    /\ Len(exc.history) >= 2
    /\ exc.window.falls.slopes # <<>>
    /\ Last(exc.window.falls.slopes).min_rate = 55
    /\ exc.window.coasts.slopes = <<>>
    /\ Last(exc.history).rate = 56
    /\ exc.history[Len(exc.history) - 1].rate < 56
    /\ exc.interesting
    /\ exc.current_hspan = Some(HSpanNew(Last(exc.history)))

\* C15 as stated: whenever check_history evaluates the threshold, it is
\* last_fall.min_rate if a fall has been committed and either no coast has
\* or the last committed fall ends later than the last committed coast, and
\* otherwise last_coast.mid_rate + 1; the slopes in progress and the
\* discarded ones play no part.
C15_ThresholdFromLastCommitted ==
    exc.threshold # None =>
        LET falls  == exc.window.falls.slopes
            coasts == exc.window.coasts.slopes
            thr    == The(exc.threshold)
        IN  /\ falls # <<>> \/ coasts # <<>>
            /\ thr.d > 0
            /\ IF /\ falls # <<>>
                  /\ \/ coasts = <<>>
                     \/ Last(Last(coasts).samples).time < Last(Last(falls).samples).time
               THEN thr.n = Last(falls).min_rate * thr.d
               ELSE 2 * thr.n = (Last(coasts).min_rate + Last(coasts).max_rate + 2) * thr.d

\* C16 as stated: whenever interesting is true after a sample, the slope of
\* the window is positive and not smaller than the slope of the window
\* analysed before it, and that earlier slope is positive too.
C16_BothSlopesPositive ==
    exc.interesting =>
        LET cur  == exc.window.last_slope
            prev == exc.window.prev_slope
        IN  /\ cur.d > 0 /\ prev.d > 0
            /\ cur.n > 0
            /\ cur.n * prev.d >= prev.n * cur.d
            /\ prev.n > 0

\* C16, amended: whenever interesting is true after a sample, the slope of
\* the latest analysed window is positive and not smaller than the value
\* last_slope had before that window was analysed (the slope of the window
\* analysed before it, 0 at first); that earlier slope may be negative or
\* zero.  The latest analysed window is the current one unless fewer than
\* two samples lie in the current one.
C16_SlopePositiveNotSmaller ==
    exc.interesting =>
        LET cur  == exc.window.last_slope
            prev == exc.window.prev_slope
        IN  /\ cur.d > 0 /\ prev.d > 0
            /\ cur.n > 0
            /\ cur.n * prev.d >= prev.n * cur.d

\* interesting is true on a positive slope that follows a negative one
C16_Witness ==
    /\ exc.interesting
    /\ exc.window.last_slope.n > 0
    /\ exc.window.prev_slope.n < 0
    /\ Len(WindowSamples(exc.window, exc.history)) >= 2

\* interesting is true after a sample that no other sample of the last ten
\* seconds accompanies: no regression has been made on the current window
C16_WitnessNotAnalysed ==
    /\ exc.interesting
    /\ Len(WindowSamples(exc.window, exc.history)) = 1

\* C17: a run of consecutive samples for which interesting is true makes
\* one HSpan: opened at the first sample of the run with min_sample and
\* max_sample that sample, its max_sample moved to each further sample of
\* the run, appended to hspans at the first sample for which interesting is
\* false; hspans changes at no other time, and after every sample
\* current_hspan is non-None exactly when interesting is true.
C17_OneSpanPerRun ==
    /\ (exc.current_hspan # None <=> exc.interesting)
    /\ (exc.samples = <<>> => exc.hspans = <<>>)
    /\ [][ LET sample == Last(exc'.samples)
               span   == The(exc'.current_hspan)
           IN  /\ exc'.current_hspan # None <=> exc'.interesting
               /\ (~exc.interesting /\ exc'.interesting) =>
                     /\ span = [min_sample |-> sample, max_sample |-> sample]
                     /\ exc'.hspans = exc.hspans
               /\ (exc.interesting /\ exc'.interesting) =>
                     /\ span = [min_sample |-> The(exc.current_hspan).min_sample,
                                max_sample |-> sample]
                     /\ exc'.hspans = exc.hspans
               /\ (exc.interesting /\ ~exc'.interesting) =>
                     exc'.hspans = Append(exc.hspans, The(exc.current_hspan))
               /\ (~exc.interesting /\ ~exc'.interesting) =>
                     exc'.hspans = exc.hspans ]_vars

\* a run of two samples has ended: its span, from the first to the second
\* sample of the run, has been appended to hspans
C17_Witness ==
    /\ ~exc.interesting
    /\ exc.current_hspan = None
    /\ Len(exc.samples) = 5
    /\ exc.hspans = <<[min_sample |-> exc.samples[3], max_sample |-> exc.samples[4]]>>

\* the samples of the list within ten seconds of its newest one
InWindow(samples) ==
    SelectSeq(samples, LAMBDA x : Last(samples).time - x.time <= 10)

\* C18: on every analysed window each accumulator is what its own check()
\* makes of its own earlier state, the samples of the window, the slope and
\* its own condition (climb: slope > 0.3; fall: slope < -0.3; coast:
\* variance < 1.0 or -0.1 < slope < 0.1), whatever the other two hold.
C18_EachAccumulatorOwnTest ==
    [][ LET w   == win.window
            w2  == win'.window
            ws  == InWindow(win'.samples)
            s   == w2.last_slope
            v   == w2.last_variance
        IN  Len(ws) >= 2 =>
              /\ s.d > 0 /\ v.d > 0
              /\ w2.climbs = SlopesCheck(w.climbs, ws, s, 10 * s.n > 3 * s.d)
              /\ w2.falls = SlopesCheck(w.falls, ws, s, 10 * s.n < -3 * s.d)
              /\ w2.coasts = SlopesCheck(w.coasts, ws, s,
                                \/ v.n < v.d
                                \/ (10 * s.n < s.d /\ 10 * s.n > -s.d)) ]_vars

\* a coast and a climb are in progress together
C18_Witness ==
    /\ win.window.coasts.current # None
    /\ win.window.climbs.current # None
    /\ Len(InWindow(win.samples)) >= 2

\* also reached: a coast and a fall in progress together
C18_WitnessFall ==
    /\ win.window.coasts.current # None
    /\ win.window.falls.current # None

\* C19: a call of Window.sample on a list with fewer than two samples
\* within ten seconds of the newest changes nothing in the Window: the
\* three accumulators, last_slope, last_variance and slope_climbing are
\* what they were.
C19_ShortWindowNoChange ==
    [][ Len(InWindow(win'.samples)) < 2 => win'.window = win.window ]_vars

\* the latest call found one sample in the window and left a coast in
\* progress and a climbing flag as they were
C19_Witness ==
    /\ Len(win.samples) >= 3
    /\ Len(InWindow(win.samples)) = 1
    /\ win.window.slope_climbing
    /\ win.window.coasts.current # None

\* C20: history never holds more than 20 samples; after n samples have
\* been processed it is the latest min(n, 20) of them in arrival order, the
\* oldest one leaving when a sample arrives while 20 are held.
C20_HistoryLatestTwenty ==
    LET n == Len(exc.samples)
        k == IF n < 20 THEN n ELSE 20
    IN  /\ Len(exc.history) = k
        /\ \A i \in 1..k : exc.history[i] = exc.samples[n - k + i]

\* 22 samples have arrived, one of them odd: the first two have left
C20_Witness ==
    /\ Len(exc.samples) = 22
    /\ Len(exc.history) = 20
    /\ exc.history[1] = exc.samples[3]
    /\ exc.samples[2].rate = 70
    /\ \A i \in 1..20 : exc.history[i].rate = 60

-----------------------------------------------------------------------------
(* Properties of GyroAxis *)

\* C3: with no calibration file at construction, the first 128 add() calls
\* leave the window empty; from the 129th call on the window holds, for each of
\* the (at most 64) latest calls after the 128th, that call's sample minus the
\* mean of the first 128 samples (the bias), in call order.
C3_CalibrationThenBias ==
    ~raw.preexisting =>
        LET n == Len(raw.samples)
            first == SubSeq(raw.samples, 1, 128)
        IN  /\ n <= 128 => gyro.window = <<>>
            /\ n >= 129 =>
                 LET kept == IF n - 128 <= 64 THEN n - 128 ELSE 64
                 IN  /\ Len(gyro.window) = kept
                     /\ \A i \in 1..kept :
                           \* window[i] = raw[n - kept + i] - sum(first) / 128
                           /\ gyro.window[i].d > 0
                           /\ gyro.window[i].n * 128 =
                                (raw.samples[n - kept + i] * 128 - SumSeq(first))
                                    * gyro.window[i].d

\* calibration saw a spike, and two samples have been appended since
C3_Witness ==
    /\ ~raw.preexisting
    /\ Len(raw.samples) = 130
    /\ Spikes(SubSeq(raw.samples, 1, 128)) = 1
    /\ Len(gyro.window) = 2
    /\ gyro.window[1] = Rat(2 * 128 - 259, 128)

\* C12: a GyroAxis constructed while the file written by an earlier
\* instance exists has that instance's bias, collects no calibration sample,
\* and appends sample minus bias to the window from its first add() on.
C12_FileReloadsBias ==
    (raw.instance > 1 /\ raw.preexisting) =>
        /\ raw.earlier # None
        /\ gyro.bias = raw.earlier
        /\ gyro.bias_samples = <<>>
        /\ Len(gyro.window) = Len(raw.samples)
        /\ \A i \in DOMAIN gyro.window :
              LET bias == The(raw.earlier)
              IN  /\ gyro.window[i].d > 0
                  /\ gyro.window[i].n * bias.d =
                       (raw.samples[i] * bias.d - bias.n) * gyro.window[i].d

\* the first instance calibrated over a spike; the second one loaded the
\* bias and has been given one sample
C12_Witness ==
    /\ raw.instance = 2
    /\ raw.preexisting
    /\ raw.earlier = Some(Rat(259, 128))
    /\ raw.samples = <<2>>
    /\ gyro.window = <<Rat(2 * 128 - 259, 128)>>

\* what C13 says of one instance: the writes it has made and the file
WritesOnce(r, g, file) ==
    /\ r.writes <= 1
    /\ r.preexisting => r.writes = 0
    /\ ~r.preexisting => (r.writes = 1 <=> Len(r.samples) > 128)
    /\ r.writes = 1 => (g.bias # None /\ file = Some([bias |-> The(g.bias)]))

\* C13: an instance writes the calibration file at most once: once, at the
\* add() call that completes calibration (the 129th), when no file existed
\* at construction, and never when the bias was loaded from a file; once
\* the bias has a value no add() call changes it.
C13_FileWrittenOnce ==
    /\ WritesOnce(raw, gyro, cal_file)
    /\ [][ /\ WritesOnce(raw', gyro', cal_file')
           /\ (raw'.instance = raw.instance /\ gyro.bias # None)
                 => gyro'.bias = gyro.bias
           /\ (raw'.instance = raw.instance /\ raw'.writes = raw.writes)
                 => cal_file' = cal_file ]_vars

\* calibration completed three calls ago and the file was written then
C13_Witness ==
    /\ ~raw.preexisting
    /\ raw.instance = 1
    /\ Len(raw.samples) = 131
    /\ raw.writes = 1
    /\ cal_file = Some([bias |-> Mean(SubSeq(raw.samples, 1, 128))])

\* C14: started without calibration files, HeadMovement and
\* ModeHeadMovement send no HeadShaken before each axis has been given the
\* 128 calibration samples and the 64 samples that fill its window, and
\* until then every value() call returns (0, 0).
C14_NoGestureBeforeCalibration ==
    (~head.preexisting /\ head.received < 128 + 64) =>
        /\ head.out = None
        /\ \A i \in DOMAIN head.values : head.values[i] = [freq |-> 0, power |-> 0]

\* the first chunk that fills the windows sends HeadShaken
C14_Witness ==
    /\ ~head.preexisting
    /\ head.received = 128 + 64
    /\ head.out # None
    /\ The(head.out).axis = "y"

-----------------------------------------------------------------------------
(* Properties of OutputController *)

\* C24: a step that takes the controller out of pause sends exactly one
\* SetPower, whose power is the value of the power Adjustment over 100,
\* unrounded, and leaves that value alone; a Pause, a Resume or an
\* EmergencyStop that finds the pause state as it asks for makes set_paused
\* send nothing.
C24_ResumeRestoresPower ==
    [][ /\ (oc.paused /\ ~oc'.paused) =>
              (oc'.out = <<oc.power>> /\ oc'.power = oc.power)
        /\ (oc'.ev \in {"Pause", "Resume"} /\ oc'.paused = oc.paused) =>
              oc'.out = <<>>
        /\ (oc'.ev = "EmergencyStop" /\ oc.paused) => oc'.out = <<>> ]_vars

\* the controller has left pause on a Resume with the scale at 30.5: the
\* SetPower sent carries 0.305
C24_Witness ==
    /\ oc.ev = "Resume"
    /\ ~oc.paused
    /\ oc.power = 61
    /\ oc.out = <<61>>

AutomatedRequests ==
    {"Increment", "Decrement", "SetActivePower", "IncreaseActivePower", "on_frame"}

\* C25: in manual mode Increment, Decrement, SetActivePower,
\* IncreaseActivePower and the frames of the animator leave the power
\* setting as it is and send no SetPower; a change of the scale sets the
\* power, and sends SetPower when not paused.
C25_ManualIgnoresAutomated ==
    [][ /\ (oc.manual /\ oc'.ev \in AutomatedRequests) =>
              (oc'.power = oc.power /\ oc'.out = <<>> /\ oc'.last = oc.last)
        /\ (oc.manual /\ oc'.ev = "on_manual_power" /\ oc'.power # oc.power
               /\ ~oc.paused) =>
              (oc'.out # <<>> /\ oc'.last = Some(2 * Round(oc'.power))) ]_vars

\* a frame of a running animation has come in manual mode, the controller
\* active and not paused: nothing was sent
C25_Witness ==
    /\ oc.ev = "on_frame"
    /\ oc.manual /\ oc.active /\ ~oc.paused
    /\ oc.anim = <<10, 0>>
    /\ oc.power = 60
    /\ oc.out = <<>>

\* C28: entering pause sends SetPower with power 0 last, no step taken in
\* pause sends a SetPower, and so the latest SetPower sent is of power 0
\* for as long as the controller is paused.
C28_PausedPowerZero ==
    /\ (oc.paused => oc.last = Some(0))
    /\ [][ /\ (~oc.paused /\ oc'.paused) => (oc'.out # <<>> /\ Last(oc'.out) = 0)
           /\ (oc.paused /\ oc'.paused) => oc'.out = <<>>
           /\ oc'.paused => oc'.last = Some(0) ]_vars

\* the scale has been moved from 0 to 30 in pause: nothing was sent
C28_Witness ==
    /\ oc.paused
    /\ oc.ev = "on_manual_power"
    /\ oc.power = 60
    /\ oc.out = <<>>
    /\ oc.last = Some(0)

\* C29 as stated: after EmergencyStop has been handled the controller is
\* paused and its power setting is 0, whatever state it was in.
C29_EmergencyStopZeroes ==
    oc.ev = "EmergencyStop" => (oc.paused /\ oc.power = 0)

\* C34: once the animations started on the controller have yielded all
\* their values and the animator's timer has stopped, and the controller
\* is not paused, the last SetPower sent carries the power setting, as
\* on_power sends it (rounded) or as set_paused and set_animated_power send
\* it (as it is), with nothing of the animation added.
C34_NoAnimatedLevelLeft ==
    (/\ oc.pulses > 0
     /\ oc.anim = <<>>
     /\ ~oc.timeout
     /\ ~oc.paused
     /\ oc.last # None)
    => The(oc.last) \in {oc.power, 2 * Round(oc.power)}

-----------------------------------------------------------------------------
(* Properties of Pattern and Player *)

\* the concatenation of the waves
RECURSIVE Flatten(_)
Flatten(waves) == IF waves = <<>> THEN <<>> ELSE Head(waves) \o Flatten(Tail(waves))

\* C23: every read(n) returns at most n samples, and fewer than n only when
\* the generator is exhausted, all its samples then returned; what the
\* calls have returned so far, end to end, is a prefix of the waves of
\* generate() end to end; a read() on an ended pattern returns nothing.
C23_ReadsArePrefix ==
    LET all == Flatten(pat.pattern.waves)
    IN  /\ Len(pat.res) <= pat.nsamples
        /\ Len(pat.got) <= Len(all)
        /\ pat.got = SubSeq(all, 1, Len(pat.got))
        /\ Len(pat.res) < pat.nsamples => (pat.pattern.ended /\ pat.got = all)
        /\ pat.was_ended => (pat.res = <<>> /\ pat.pattern.ended)

\* a read of 4 samples has crossed an empty wave and joined the end of one
\* wave to the start of the next
C23_Witness ==
    /\ Len(pat.pattern.waves) = 3
    /\ Len(pat.pattern.waves[1]) = 3
    /\ Len(pat.pattern.waves[2]) = 0
    /\ Len(pat.pattern.waves[3]) = 3
    /\ pat.reads = 2
    /\ pat.res = <<3, 4, 5, 6>>
    /\ pat.got = <<1, 2, 3, 4, 5, 6>>
    /\ ~pat.pattern.ended

\* also reached: a read on a pattern that had ended
C23_WitnessEnded == pat.was_ended /\ pat.got # <<>>

\* the wave of channel idx in the array get_samples returned
ChannelWave(out, idx, nch) ==
    [k \in 1..(Len(out) \div nch) |-> out[(k - 1) * nch + idx]]

\* what C22 says of channel i in a step from pl to pl2
OverrideStep(pl, pl2, i) ==
    LET nch == Len(pl.channels)
        ev  == pl2.ev
    IN  /\ ev.kind = "get_samples" =>
              LET n    == ev.frame_count
                  wave == ChannelWave(pl2.out, i, nch)
              IN  IF pl.overrides[i] # None
                  THEN LET r == Read(The(pl.overrides[i]), n)
                       IN  /\ pl2.channels[i] = pl.channels[i]
                           /\ pl2.own[i] = pl.own[i]
                           /\ wave = Pad(r.res, n)
                           /\ pl2.overrides[i] =
                                 IF Len(r.res) < n THEN None ELSE Some(r.pattern)
                  ELSE LET r == Read(pl.channels[i], n)
                       IN  /\ pl2.channels[i] = r.pattern
                           /\ pl2.own[i] = pl.own[i] \o r.res
                           /\ wave = Pad(r.res, n)
                           /\ pl2.overrides[i] = None
        /\ ev.kind = "set_override" =>
              /\ pl2.channels[i] = pl.channels[i]
              /\ pl2.own[i] = pl.own[i]
              /\ pl2.overrides[i] =
                    IF ev.index = i /\ (pl.overrides[i] = None \/ ev.replace)
                    THEN Some(PatternNew(ev.waves))
                    ELSE pl.overrides[i]
        /\ LET all == Flatten(pl2.channels[i].waves)
           IN  /\ Len(pl2.own[i]) <= Len(all)
               /\ pl2.own[i] = SubSeq(all, 1, Len(pl2.own[i]))

-----------------------------------------------------------------------------
(* Properties of the Bluetooth connection *)

\* C31: when run() takes a BluetoothDisconnect from its mailbox, a connect
\* loop is started if none is running and the running one is left alone
\* otherwise, and run() goes back to waiting for the next message without
\* an exception.
C31_DisconnectRestartsConnect ==
    [][(/\ bt.pc = "wait"
        /\ bt.mailbox # <<>>
        /\ Head(bt.mailbox).kind = "BluetoothDisconnect"
        /\ bt'.mailbox = Tail(bt.mailbox))
       => /\ bt'.pc = "wait"
          /\ bt'.error = "none"
          /\ IF bt.connect_task = None
             THEN bt'.connect_task # None /\ bt'.connect = "attempt"
             ELSE bt'.connect_task = bt.connect_task /\ bt'.connect = bt.connect]_vars

-----------------------------------------------------------------------------
(* Properties of ButtplugClient *)

\* C32: when run() has ended after client.connect() returned,
\* client.disconnect() has been called.
C32_DisconnectAfterConnect ==
    (bp.pc = "done" /\ bp.connected) => bp.disconnected

-----------------------------------------------------------------------------
(* Properties of HappyLights *)

\* the command that carries the present value of the three components
CurrentCommand == <<86, hl.value["red"], hl.value["green"], hl.value["blue"], 0, 240, 170>>

\* C33: in every run of the event loop, from some point on the last command
\* written to the device carries the present value of the three
\* components, provided update() was called at all; while messages go on
\* arriving that point is after the last of them.
C33_LastCommandIsLatest ==
    <>[](hl.updates > 0 => hl.written = Some(CurrentCommand))

\* three updates have set red to 1.0 and green to 0.5, the task has
\* written the command with the three values and waits for the next update
C33_Witness ==
    /\ hl.updates = 3
    /\ hl.value = [c \in Colors |-> IF c = "red" THEN 255 ELSE IF c = "green" THEN 128 ELSE 0]
    /\ hl.written = Some(<<86, 255, 128, 0, 0, 240, 170>>)
    /\ hl.task = "wait"
    /\ ~hl.event

-----------------------------------------------------------------------------
(* Properties of the emergency key *)

\* C30: whenever the read loop of CncInput has handled a line that reports
\* a press of the EMERGENCY key, it has sent an EmergencyStop, whether the
\* input is active or not.
C30_EmergencyAlwaysStops ==
    [][(/\ cnc.task_line = Done(CncLine(1, "EMERGENCY"))
        /\ cnc'.task_line = Pending)
       => \E i \in DOMAIN cnc'.sent :
             /\ i > Len(cnc.sent)
             /\ cnc'.sent[i].kind = "EmergencyStop"]_vars

-----------------------------------------------------------------------------
(* Properties of device discovery *)

\* C21: no two add_component calls made by device discovery are given the
\* same name.
C21_NamesUnique ==
    \A i, j \in DOMAIN disc.names : i # j => disc.names[i] # disc.names[j]

-----------------------------------------------------------------------------
(* Properties of the Coyote encoding *)

\* C26: the three bytes are the 24-bit number with power_a in bits 10-0
\* and power_b in bits 21-11, most significant byte first, and parsing
\* them gives back (power_a, power_b).
C26_PowerRoundTrip ==
    /\ coy.stage # "input" =>
          /\ coy.value # "ValueError"
          /\ (coy.value[1] * 65536) + (coy.value[2] * 256) + coy.value[3]
                = (coy.power_b * 2048) + coy.power_a
    /\ coy.stage = "parsed" => coy.parsed = <<coy.power_a, coy.power_b>>

-----------------------------------------------------------------------------
(* Properties of the head position *)

\* the sum of the samples along axis k: the mean times the number of samples
AxisSum(k) == SumSeq(Column(hp.samples, k))

\* C27: the HeadMoved message of either handler has roll 0 and pitch 0
\* with gravity along +z, (180, 0) along -z, (90, 0) along +y, (-90, 0)
\* along -y, (0, -90) along +x and (0, 90) along -x; in general the pitch
\* has the sign of -x and is 0 without x, and the roll is 0 without y
\* and z.
C27_RollPitch ==
    hp.stage # "input" =>
        LET x == AxisSum(1)
            y == AxisSum(2)
            z == AxisSum(3)
            roll  == hp.msg.roll
            pitch == hp.msg.pitch
        IN  /\ (x = 0 /\ y = 0 /\ z > 0) => (roll = 0 /\ pitch = 0)
            /\ (x = 0 /\ y = 0 /\ z < 0) => (roll = 180 /\ pitch = 0)
            /\ (x = 0 /\ y > 0 /\ z = 0) => (roll = 90 /\ pitch = 0)
            /\ (x = 0 /\ y < 0 /\ z = 0) => (roll = -90 /\ pitch = 0)
            /\ (x > 0 /\ y = 0 /\ z = 0) => (roll = 0 /\ pitch = -90)
            /\ (x < 0 /\ y = 0 /\ z = 0) => (roll = 0 /\ pitch = 90)
            /\ (x = 0) = (pitch = 0)
            /\ (x > 0) = (pitch < 0)
            /\ (y = 0 /\ z >= 0) = (roll = 0)
            /\ (y > 0) = (roll = 90 \/ roll = 45 \/ roll = 135)

\* process_samples has sent the angles of gravity along -z, taken as the
\* mean of two samples
C27_Witness ==
    /\ hp.stage = "process_samples"
    /\ hp.samples = <<<<0, 0, -98>>, <<0, 0, -98>>>>
    /\ hp.msg = [roll |-> 180, pitch |-> 0]

\* on_acc has sent the angles of gravity along +y
C27_WitnessOnAcc ==
    /\ hp.stage = "on_acc"
    /\ hp.samples = <<<<0, 98, 0>>>>
    /\ hp.msg = [roll |-> 90, pitch |-> 0]

-----------------------------------------------------------------------------
(* Properties of the components *)

InMailbox(c, kind) == \E i \in DOMAIN c.mailbox : c.mailbox[i].kind = kind

\* C4: once run() has finished after taking a Shutdown, every task the
\* component started (the connect loop, the stdout reader, the periodic
\* timer) has been cancelled and has ended.
C4_TasksEndedAfterShutdown ==
    /\ (bt.pc = "done" /\ bt.shutdown_taken) =>
          /\ bt.connect \in {"finished", "cancelled"}
          /\ bt.timer = "none"
    /\ (test.pc = "done" /\ test.shutdown_taken) =>
          test.reader \in {"finished", "cancelled"}

\* C5: once the run loop of a BluetoothComponent, a CncInput or a NullOutput
\* has taken a Shutdown from its mailbox, it takes no further message and
\* does nothing a message or a line asks for: nothing is sent, active and
\* power keep their values, and what is queued behind the Shutdown stays
\* in the mailbox.
C5_NothingAfterShutdown ==
    [][ /\ bt.shutdown_taken => bt'.taken = bt.taken
        /\ cnc.shutdown_taken =>
              /\ cnc'.taken = cnc.taken
              /\ cnc'.sent = cnc.sent
              /\ cnc'.active = cnc.active
        /\ nullout.shutdown_taken =>
              /\ nullout'.taken = nullout.taken
              /\ nullout'.power = nullout.power
              /\ nullout'.pc = "done"
      ]_vars

C5_Witness ==
    /\ nullout.pc = "done"
    /\ nullout.shutdown_taken
    /\ nullout.mailbox # <<>>
    /\ Head(nullout.mailbox) = SetPower("self", 2)
    /\ nullout.power # 2

\* C7: a Shutdown delivered to a BluetoothComponent whose device never
\* answers, or to a CncInput whose socket refuses connections, ends run():
\* no connection has to succeed first.
C7_ShutdownEndsRetry ==
    /\ (BtActive /\ InMailbox(bt, "Shutdown")) ~> (bt.pc = "done")
    /\ (app = "CncInput" /\ InMailbox(cnc, "Shutdown")) ~> (cnc.pc = "done")

C7_Witness ==
    /\ bt.pc = "done"
    /\ ~bt.in_range
    /\ bt.failures = MaxFailures
    /\ bt.connect = "cancelled"
    /\ bt.shutdown_taken

\* C8: a connect() that raises BleakError leaves the connect task asleep for
\* 0.3 s, whatever the number of earlier failures, and the task then tries
\* again; a refused open_unix_connection leaves run() in a next_message with
\* a timeout of 0.5 s, whatever the number of earlier refusals, after which
\* it tries again unless a Shutdown came; neither changes where run() is or
\* makes it end with an error.
C8_FailureCaughtFixedWait ==
    [][ /\ (/\ bt.connect = "attempt"
            /\ bt'.connect \notin {"attempt", "finished", "cancelling"}) =>
              /\ bt'.connect = "sleep"
              /\ bt'.wait = connect_retry_wait
              /\ bt'.pc = bt.pc
              /\ bt'.error = bt.error
        /\ (bt.connect = "sleep" /\ bt'.connect # "sleep") =>
              bt'.connect \in {"attempt", "cancelling"}
        /\ (cnc.pc = "connect" /\ cnc'.pc \notin {"connect", "read"}) =>
              /\ cnc'.pc = "poll_wait"
              /\ cnc'.wait = poll_timeout
              /\ cnc'.error = "none"
        /\ (cnc.pc = "poll_wait" /\ cnc'.pc # "poll_wait") =>
              /\ cnc'.error = "none"
              /\ \/ cnc'.pc = "connect"
                 \/ cnc'.pc = "done" /\ cnc'.shutdown_taken
      ]_vars

C8_Witness ==
    /\ bt.connect = "sleep"
    /\ bt.failures = 2
    /\ bt.wait = connect_retry_wait
    /\ bt.pc = "wait"
    /\ bt.error = "none"

\* C9: a line that is no valid JSON, read by TestOutput._read_stdout, by
\* HeartReceiver.read_socket or by CncInput.run, is passed over: no message
\* or sample comes of it, the reader goes on to the next line and the
\* component keeps running.
C9_MalformedLineSkipped ==
    [][ /\ (TestReadline /\ test.stdout # <<>> /\ ~Head(test.stdout).parsed) =>
              /\ test'.reader = "reading"
              /\ test'.sent = test.sent
              /\ test'.pc = test.pc
        /\ (HrReadline /\ hr.lines # <<>> /\ Head(hr.lines) = Garbage) =>
              /\ hr'.error = "none"
              /\ hr'.samples = hr.samples
              /\ hr'.pc = "read" \/ hr.shutting_down
        /\ (CncWait /\ cnc.task_line = Done(Garbage) /\ cnc.task_msg # Done(Shutdown)) =>
              /\ cnc'.error = "none"
              /\ cnc'.pc = "read"
              /\ cnc'.sent = cnc.sent
              /\ cnc'.task_line = Pending
      ]_vars

-----------------------------------------------------------------------------
(* Properties of the message bus *)

\* the messages of one sender among those a subscriber has taken
From(log, s) == SelectSeq(log, LAMBDA msg : msg.src = s)

\* C6: the messages of one sender are taken by any one subscriber in the
\* order they were sent; nothing orders the messages of different senders.
C6_FifoPerSender ==
    \A c \in Subscribers, s \in Senders :
       LET log == From(bus.seen[c], s)
       IN  \A i, j \in DOMAIN log : i < j => log[i].n < log[j].n

C6_Witness ==
    /\ bus.seen["null"] = <<[src |-> "cnc", n |-> 1], [src |-> "manual", n |-> 1],
                            [src |-> "cnc", n |-> 2], [src |-> "manual", n |-> 2]>>
    /\ bus.seen["player"] = <<[src |-> "manual", n |-> 1], [src |-> "cnc", n |-> 1],
                              [src |-> "manual", n |-> 2], [src |-> "cnc", n |-> 2]>>

=============================================================================
